---------------------------- MODULE Spec2Model ----------------------------
(***************************************************************************)
(* Model of the dispatch core of the flood-response backend:               *)
(*   backend/app/models/incident.py      Incident, IncidentStatus          *)
(*   backend/app/models/rescue_unit.py   RescueUnit, UnitStatus            *)
(*   backend/app/utils/spatial.py        find_nearest_rescue_unit,         *)
(*                                       optimize_unit_assignments,        *)
(*                                       check_coverage_gaps               *)
(*   backend/app/models/flood_zone.py    FloodZone priority scores         *)
(*   backend/app/services/gis_service.py calculate_distance,               *)
(*                                       point_in_radius, get_bounding_box *)
(*   backend/app/models/user.py          User permissions                  *)
(*   backend/app/routers/incidents.py    create_incident, update_incident, *)
(*                                       delete_incident,                  *)
(*                                       assign_incident_to_unit           *)
(*   backend/app/routers/rescue_units.py create_rescue_unit,               *)
(*                                       update_rescue_unit,               *)
(*                                       update_unit_location,             *)
(*                                       update_unit_status,               *)
(*                                       schedule_maintenance,             *)
(*                                       delete_rescue_unit                *)
(*                                                                         *)
(* Conventions.  None (-1) stands for Python's None / SQL NULL.  Time is   *)
(* counted in whole hours.  A location is a latitude in tenths of a degree *)
(* on one fixed meridian (the longitude is the same non-zero value for     *)
(* every entity), so that the geodesic distance of two locations is        *)
(* proportional to the difference of their latitudes.  Latitude 0 is kept  *)
(* in the input sets because the code tests coordinates for truthiness.    *)
(* A stored row always has a location; an incident object with latitude 0  *)
(* stands for one built in memory without a location.                      *)
(***************************************************************************)
EXTENDS Integers, Sequences, FiniteSets

VARIABLES
    incidents,   \* table incidents: sequence of rows, the row's id is its index;
                 \* NoRow where the row has been deleted
    units,       \* table rescue_units: function from unit id to row
    rescue_units_id_seq,
                 \* the last value of the sequence of rescue_units.id
    now,         \* the clock read by datetime.utcnow(), in hours
    reqs,        \* the in-flight assign, creation or delete requests, one session each
    plan,        \* the state of one run of optimize_unit_assignments
    response     \* the response of the last handler or method call that returned

vars == <<incidents, units, rescue_units_id_seq, now, reqs, plan, response>>

None == -1

\* ------------------------------------------------------------------ bounds

MaxIncidents == 2
NumUnits == 2
NumReqs == 2
MaxTime == 3
MaxBatch == 3
MaxSeedRuns == 1

UnitIds == 1..NumUnits
ReqIds == 1..NumReqs

\* Latitudes (tenths of a degree) a POST /incidents/ request of the model carries.
IncidentLats == {0, 2}

\* ------------------------------------------------------------ enumerations

SeverityLevel == {"low", "medium", "high", "critical"}

IncidentStatus ==
    {"reported", "verified", "assigned", "in_progress", "resolved", "closed", "cancelled"}

UnitStatus ==
    {"available", "standby", "dispatched", "en_route", "on_scene", "busy",
     "returning", "out_of_service", "maintenance", "offline"}

\* IncidentStatus.can_transition_to: the transitions dictionary.
transitions(status) ==
    CASE status = "reported"    -> {"verified", "assigned", "cancelled"}
      [] status = "verified"    -> {"assigned", "cancelled"}
      [] status = "assigned"    -> {"in_progress", "reported", "cancelled"}
      [] status = "in_progress" -> {"resolved", "assigned"}
      [] status = "resolved"    -> {"closed", "in_progress"}
      [] status = "closed"      -> {}
      [] status = "cancelled"   -> {}
      [] OTHER                  -> {}

\* A check that also lets an incident in progress be cancelled.
can_transition_to_cancellable(status, new_status) ==
    \/ new_status \in transitions(status)
    \/ status = "in_progress" /\ new_status = "cancelled"

can_transition_to(status, new_status) == new_status \in transitions(status)

\* UnitStatus.is_operational
status_is_operational(status) ==
    status \in {"available", "standby", "dispatched", "en_route", "on_scene",
                "busy", "returning"}

\* UnitStatus.is_available_for_dispatch
is_available_for_dispatch(status) == status \in {"available", "standby"}

\* RescueUnit.is_available
is_available(unit) == is_available_for_dispatch(unit.status) /\ unit.is_active

\* -------------------------------------------------------------------- User

\* The users who send requests: two field responders, a district officer, a
\* command-center operator and an administrator.
Users ==
    { [id |-> 1, role |-> "field_responder", full_name |-> "A"],
      [id |-> 2, role |-> "field_responder", full_name |-> "B"],
      [id |-> 3, role |-> "district_officer", full_name |-> "C"],
      [id |-> 4, role |-> "command_center", full_name |-> "D"],
      [id |-> 5, role |-> "admin", full_name |-> "E"] }

Reporter == CHOOSE user \in Users : user.full_name = "A"
Operator == CHOOSE user \in Users : user.role = "command_center"
Admin == CHOOSE user \in Users : user.role = "admin"

\* User.can_view_all_incidents
can_view_all_incidents(user) ==
    user.role \in {"command_center", "district_officer", "admin"}

\* User.can_manage_rescue_units
can_manage_rescue_units(user) == user.role \in {"command_center", "admin"}

\* The dependency require_role(allowed_roles): the request goes on for a user
\* with one of the roles and is answered 403 for any other.
require_role(current_user, allowed_roles) == current_user.role \in allowed_roles

\* ---------------------------------------------------------------- Incident

\* Incident(...) as create_incident builds it, after db.commit()/db.refresh():
\* the column defaults are applied and created_at is the server's now().  The
\* timestamp columns are DateTime(timezone=True): a value read back from the
\* database carries a time zone (created_at_aware), one assigned from
\* datetime.utcnow() carries none.
NewIncident(reporter_id, incident_type, severity, lat, people, t) ==
    [ reporter_id           |-> reporter_id,
      incident_type         |-> incident_type,
      severity              |-> severity,
      status                |-> "reported",
      lat                   |-> lat,
      affected_people_count |-> people,
      priority_score        |-> 0,
      is_mass_casualty      |-> FALSE,
      is_hazmat_involved    |-> FALSE,
      is_structural_damage  |-> FALSE,
      assigned_unit_id      |-> None,
      created_at            |-> t,
      created_at_aware      |-> TRUE,
      verified_at           |-> None,
      assigned_at           |-> None,
      response_started_at   |-> None,
      resolved_at           |-> None,
      closed_at             |-> None,
      resolution_time       |-> None ]

\* An Incident object built in memory with created_at = datetime.utcnow(),
\* not read back from the database: its created_at carries no time zone.
in_memory(inc) == [inc EXCEPT !.created_at_aware = FALSE]

\* The place of a deleted row: ids come from a sequence and are not given
\* again, so the row's position stays taken by no row.
NoRow ==
    [ reporter_id           |-> None,
      incident_type         |-> "none",
      severity              |-> "none",
      status                |-> "none",
      lat                   |-> None,
      affected_people_count |-> None,
      priority_score        |-> None,
      is_mass_casualty      |-> FALSE,
      is_hazmat_involved    |-> FALSE,
      is_structural_damage  |-> FALSE,
      assigned_unit_id      |-> None,
      created_at            |-> None,
      created_at_aware      |-> FALSE,
      verified_at           |-> None,
      assigned_at           |-> None,
      response_started_at   |-> None,
      resolved_at           |-> None,
      closed_at             |-> None,
      resolution_time       |-> None ]

\* db.query(Incident).filter(Incident.id == id).first() finds a row.
stored(rows, id) == id \in 1..Len(rows) /\ rows[id] # NoRow

\* Incident.update_status(new_status) with user_id left at its default None:
\* the result is the error raised ("none" when it returns) and the incident
\* after the call.  resolution_time is in minutes.  now - self.created_at
\* subtracts a created_at with a time zone from the naive utcnow() and raises
\* TypeError, after status and resolved_at have been assigned.
update_status(inc, new_status, t) ==
    IF ~can_transition_to(inc.status, new_status)
    THEN [error |-> "ValueError", inc |-> inc]
    ELSE LET moved == [inc EXCEPT !.status = new_status]
         IN  CASE new_status = "verified" ->
                    [error |-> "none", inc |-> [moved EXCEPT !.verified_at = t]]
               [] new_status = "assigned" ->
                    [error |-> "none", inc |-> [moved EXCEPT !.assigned_at = t]]
               [] new_status = "in_progress" ->
                    [error |-> "none", inc |-> [moved EXCEPT !.response_started_at = t]]
               [] new_status = "resolved" ->
                    IF inc.created_at = None
                    THEN [error |-> "none", inc |-> [moved EXCEPT !.resolved_at = t]]
                    ELSE IF inc.created_at_aware
                    THEN [error |-> "TypeError", inc |-> [moved EXCEPT !.resolved_at = t]]
                    ELSE [error |-> "none",
                          inc |-> [moved EXCEPT !.resolved_at = t,
                                                !.resolution_time =
                                                    (t - inc.created_at) * 60]]
               [] new_status = "closed" ->
                    [error |-> "none", inc |-> [moved EXCEPT !.closed_at = t]]
               [] OTHER -> [error |-> "none", inc |-> moved]

\* Incident.calculate_priority_score at time t: the error raised ("none" when
\* it returns) and the score returned.  The float sum of the code is a whole
\* number for every severity weight (10, 30, 60, 100 times 0.4).
\* datetime.utcnow() - self.created_at raises TypeError for a created_at that
\* carries a time zone.
calculate_priority_score(inc, t) ==
    LET severity_weight ==
            CASE inc.severity = "low"      -> 10
              [] inc.severity = "medium"   -> 30
              [] inc.severity = "high"     -> 60
              [] inc.severity = "critical" -> 100
              [] OTHER                     -> 0
        people ==
            IF inc.affected_people_count > 100 THEN 30
            ELSE IF inc.affected_people_count > 50 THEN 25
            ELSE IF inc.affected_people_count > 20 THEN 20
            ELSE IF inc.affected_people_count > 10 THEN 15
            ELSE IF inc.affected_people_count > 0 THEN 10
            ELSE 0
        hours_old == t - inc.created_at
        age ==
            IF hours_old > 24 THEN 20
            ELSE IF hours_old > 12 THEN 15
            ELSE IF hours_old > 6 THEN 10
            ELSE IF hours_old > 2 THEN 5
            ELSE 0
        special ==
            (IF inc.is_mass_casualty THEN 5 ELSE 0)
            + (IF inc.is_hazmat_involved THEN 3 ELSE 0)
            + (IF inc.is_structural_damage THEN 2 ELSE 0)
        score == (severity_weight * 4) \div 10 + people + age + special
    IN  IF inc.created_at_aware
        THEN [error |-> "TypeError", score |-> None]
        ELSE [error |-> "none", score |-> IF score < 100 THEN score ELSE 100]


\* ------------------------------------------------------------- RescueUnit

\* A rescue_units row as create_rescue_unit leaves it at time t, after
\* db.commit()/db.refresh(): status AVAILABLE, the column defaults, and
\* status_changed_at the server's now().  The handler does not set the
\* capabilities column, which stays NULL (the empty set here, as
\* `self.capabilities or []` reads it).
NewUnit(unit_name, unit_type, team_leader, lat, t) ==
    [ unit_name              |-> unit_name,
      unit_type              |-> unit_type,
      team_leader            |-> team_leader,
      capabilities           |-> {},
      status                 |-> "available",
      lat                    |-> lat,
      is_active              |-> TRUE,
      current_incident_id    |-> None,
      deployment_start       |-> None,
      deployment_start_aware |-> FALSE,
      estimated_return       |-> None,
      total_service_time     |-> 0,
      status_changed_at      |-> t,
      last_deployment        |-> None ]

\* The unit as a later session loads it: deployment_start is a
\* DateTime(timezone=True) column, and a stored value is read back with a
\* time zone.
refresh(unit) ==
    [unit EXCEPT !.deployment_start_aware = (unit.deployment_start # None)]

\* RescueUnit.update_status(new_status, incident_id) at time t; incident_id
\* None is the default.  The result is the error raised ("none" when it
\* returns) and the unit after the call.  total_service_time is in hours.
\* datetime.utcnow() - self.deployment_start raises TypeError for a
\* deployment_start that carries a time zone, after status and
\* status_changed_at have been assigned.
RescueUnit_update_status(unit, new_status, incident_id, t) ==
    LET moved == [unit EXCEPT !.status = new_status, !.status_changed_at = t]
    IN  IF new_status = "dispatched" /\ incident_id # None /\ incident_id # 0
        THEN [error |-> "none",
              unit |-> [moved EXCEPT !.current_incident_id = incident_id,
                                     !.deployment_start = t,
                                     !.deployment_start_aware = FALSE]]
        ELSE IF new_status = "available"
        THEN IF unit.deployment_start # None /\ unit.deployment_start_aware
             THEN [error |-> "TypeError", unit |-> moved]
             ELSE [error |-> "none",
                   unit |-> [moved EXCEPT !.total_service_time =
                                              IF unit.deployment_start # None
                                              THEN @ + (t - unit.deployment_start)
                                              ELSE @,
                                          !.current_incident_id = None,
                                          !.deployment_start = None,
                                          !.deployment_start_aware = FALSE,
                                          !.estimated_return = None]]
        ELSE IF new_status = "on_scene"
        THEN [error |-> "none", unit |-> [moved EXCEPT !.last_deployment = t]]
        ELSE [error |-> "none", unit |-> moved]

\* RescueUnit.update_location(latitude, longitude): the unit stands at the
\* new point.
RescueUnit_update_location(unit, lat) == [unit EXCEPT !.lat = lat]

\* RescueUnit.schedule_maintenance(maintenance_date) at time t: the status
\* becomes maintenance when the date is not in the future, and nothing else
\* of what the model keeps is assigned.  The comparison with the naive
\* utcnow() raises TypeError for a date that carries a time zone (aware).
RescueUnit_schedule_maintenance(unit, maintenance_date, aware, t) ==
    IF aware
    THEN [error |-> "TypeError", unit |-> unit]
    ELSE [error |-> "none",
          unit |-> IF maintenance_date <= t
                   THEN [unit EXCEPT !.status = "maintenance"] ELSE unit]

\* UnitType.capabilities
capabilities(unit_type) ==
    CASE unit_type = "fire_rescue" ->
            {"firefighting", "rescue", "medical_basic", "vehicle_extrication"}
      [] unit_type = "medical" ->
            {"medical_advanced", "patient_transport", "life_support"}
      [] unit_type = "water_rescue" ->
            {"water_rescue", "boat_operations", "diving", "swift_water"}
      [] unit_type = "evacuation" ->
            {"mass_transport", "shelter_operations", "crowd_control"}
      [] unit_type = "search_rescue" ->
            {"search_operations", "technical_rescue", "wilderness", "urban_search"}
      [] unit_type = "police" ->
            {"law_enforcement", "traffic_control", "crowd_control", "investigation"}
      [] unit_type = "emergency_services" ->
            {"coordination", "communications", "logistics"}
      [] unit_type = "volunteer" ->
            {"support_operations", "logistics", "community_liaison"}
      [] unit_type = "hazmat" ->
            {"chemical_response", "decontamination", "environmental"}
      [] unit_type = "technical_rescue" ->
            {"structural_collapse", "rope_rescue", "confined_space"}
      [] OTHER -> {}

\* type_capabilities of RescueUnit.can_handle_incident_type
type_capabilities(incident_type) ==
    CASE incident_type = "flood" -> {"water_rescue", "evacuation", "rescue"}
      [] incident_type = "rescue_needed" ->
            {"rescue", "search_operations", "medical_basic"}
      [] incident_type = "medical_emergency" ->
            {"medical_advanced", "medical_basic", "patient_transport"}
      [] incident_type = "fire" -> {"firefighting", "rescue", "vehicle_extrication"}
      [] incident_type = "infrastructure_damage" ->
            {"technical_rescue", "structural_collapse"}
      [] incident_type = "evacuation_required" ->
            {"mass_transport", "evacuation", "crowd_control"}
      [] incident_type = "hazmat" ->
            {"chemical_response", "decontamination", "environmental"}
      [] OTHER -> {}

\* RescueUnit.can_handle_incident_type: the unit's capabilities column against
\* the capabilities the incident type requires.
can_handle_incident_type(unit, incident_type) ==
    type_capabilities(incident_type) \cap unit.capabilities # {}

\* The coordinates of a row read as they are stored.
stored_latitude(row) == [error |-> "none", value |-> row.lat]

\* Incident.latitude and RescueUnit.latitude (the same property in both
\* models): float(self.location.latitude) when the row has a location, 0.0
\* when location is None (lat = 0 in the model).  The value loaded from a
\* Geography column has no attribute latitude: the read raises
\* AttributeError for every row that has a location.
Incident_latitude(row) ==
    IF row.lat # 0
    THEN [error |-> "AttributeError", value |-> None]
    ELSE [error |-> "none", value |-> 0]

\* ---------------------------------------------------------------- spatial

Abs(x) == IF x < 0 THEN -x ELSE x

\* ST_Distance on geography, in metres: one tenth of a degree of latitude.
ST_Distance(lat1, lat2) == 11057 * Abs(lat1 - lat2)

\* ST_DWithin(location, point, metres)
ST_DWithin(lat1, lat2, metres) == ST_Distance(lat1, lat2) <= metres

\* radius_km: float = 50.0 of find_nearest_rescue_unit, max_radius_km: float =
\* 50.0 of optimize_unit_assignments
DefaultRadiusKm == 50

\* The rows the query of find_nearest_rescue_unit / optimize_unit_assignments
\* filters: status AVAILABLE, id not in used_units, within the radius.
available_units_query(pool, lat, radius_km, used_units) ==
    { u \in DOMAIN pool :
        /\ pool[u].status = "available"
        /\ u \notin used_units
        /\ ST_DWithin(pool[u].lat, lat, radius_km * 1000) }

\* ... .order_by(ST_Distance(...)).first(): the rows .first() can return.  SQL
\* leaves the order of rows at equal distance open, so every row at the
\* minimal distance is a possible answer; the empty set stands for None.
nearest_units(pool, lat, radius_km, used_units) ==
    LET rows == available_units_query(pool, lat, radius_km, used_units)
    IN  { u \in rows :
            \A v \in rows : ST_Distance(pool[u].lat, lat) <= ST_Distance(pool[v].lat, lat) }

\* find_nearest_rescue_unit(db, latitude, longitude, radius_km, unit_types):
\* status AVAILABLE, the type filter when unit_types is not empty or None
\* (the empty set stands for both), within the radius, nearest first,
\* .first().  The result is the set of rows .first() can return.
find_nearest_rescue_unit(pool, lat, radius_km, unit_types) ==
    LET query == { u \in DOMAIN pool :
                     /\ pool[u].status = "available"
                     /\ unit_types # {} => pool[u].unit_type \in unit_types
                     /\ ST_DWithin(pool[u].lat, lat, radius_km * 1000) }
    IN  { u \in query :
            \A v \in query :
                ST_Distance(pool[u].lat, lat) <= ST_Distance(pool[v].lat, lat) }

\* ---------------------------------------------------------- coverage gaps

\* Lengths of the coverage analysis are in units of 10 metres on the sphere
\* of calculate_distance (r = 6371 km): one tenth of a degree of latitude is
\* 11.12 km, half a degree 55.6 km.  The units stand on one meridian, within
\* one degree of the equator, where the distance of calculate_distance and
\* the distance in the plane agree to a few metres; a point is given by its
\* distance north of the equator and east of that meridian.
TenthDegree == 1112
HalfDegree == 5560

\* lat_step = grid_size_km / 111.0 degrees, lng_step = grid_size_km /
\* (111.0 * 0.8) degrees
lat_step(grid_size_km) == (grid_size_km * 111195) \div 1110
lng_step(grid_size_km) == (grid_size_km * 111195) \div 888

\* calculate_distance(lat, lng, unit.latitude, unit.longitude) <= radius_km,
\* for a point <<north, east>> and a unit on the meridian.
within_distance(point, unit, radius_km) ==
    LET dy == point[1] - unit.lat * TenthDegree
        dx == point[2]
    IN  dy * dy + dx * dx <= (radius_km * 100) * (radius_km * 100)

\* The query with no status filter: every unit of the table.
all_units(pool) == DOMAIN pool

\* units = db.query(RescueUnit).filter(RescueUnit.status != UnitStatus.OFFLINE)
coverage_units(pool) == { u \in DOMAIN pool : pool[u].status # "offline" }

\* The units of the list comprehension that pass `if unit.latitude and
\* unit.longitude`, once both properties have been read of every unit.
located_units(pool) ==
    { u \in coverage_units(pool) : Incident_latitude(pool[u]).value # 0 }

\* lat - min_lat after k additions of lat_step, and lng - min_lng after j
\* additions of lng_step: k and j times the step, rounded once.
lat_after(k, grid_size_km) == (k * grid_size_km * 111195) \div 1110
lng_after(j, grid_size_km) == (j * grid_size_km * 111195) \div 888

\* The grid of the two while loops.  unit_coords holds the units that pass
\* `if unit.latitude and unit.longitude`; the grid runs from half a degree
\* south of the southernmost of them to half a degree north of the
\* northernmost one, and half a degree either side of the meridian.
grid_points(pool, grid_size_km) ==
    LET lats == { pool[u].lat * TenthDegree : u \in located_units(pool) }
        min_lat == (CHOOSE y \in lats : \A z \in lats : y <= z) - HalfDegree
        max_lat == (CHOOSE y \in lats : \A z \in lats : y >= z) + HalfDegree
        rows == { k \in 0..((max_lat - min_lat) \div lat_step(grid_size_km)) :
                    lat_after(k, grid_size_km) <= max_lat - min_lat }
        cols == { j \in 0..((2 * HalfDegree) \div lng_step(grid_size_km)) :
                    lng_after(j, grid_size_km) <= 2 * HalfDegree }
    IN  { << min_lat + lat_after(k, grid_size_km),
             lng_after(j, grid_size_km) - HalfDegree >> : k \in rows, j \in cols }

\* check_coverage_gaps(db, grid_size_km, coverage_radius_km): [] when the
\* query returns no unit.  Otherwise the list comprehension of unit_coords
\* reads unit.latitude of every unit of the query, and the read raises for
\* every unit that has a location: the call raises and reports nothing.
\* Past the comprehension: [] when no unit has coordinates, else the points
\* of the grid that no unit with coordinates covers.
check_coverage_gaps(pool, grid_size_km, coverage_radius_km) ==
    IF coverage_units(pool) = {}
    THEN [error |-> "none", coverage_gaps |-> {}]
    ELSE IF \E u \in coverage_units(pool) : Incident_latitude(pool[u]).error # "none"
    THEN [error |-> "AttributeError", coverage_gaps |-> {}]
    ELSE IF located_units(pool) = {}
    THEN [error |-> "none", coverage_gaps |-> {}]
    ELSE [error |-> "none",
          coverage_gaps |->
             { point \in grid_points(pool, grid_size_km) :
                 ~ \E u \in located_units(pool) :
                       within_distance(point, pool[u], coverage_radius_km) }]

\* ------------------------------------------- routers/incidents.py handlers

IdleReq == [pc |-> "idle", incident_id |-> None, rescue_unit_id |-> None,
            inc_status |-> "none", inc_unit |-> None,
            unit_status |-> "none", unit_active |-> FALSE,
            assigned_incidents |-> {}, code |-> None, idx |-> 0]

IdlePlan == [pc |-> "idle", input |-> <<>>, sorted_incidents |-> <<>>, idx |-> 0,
             used_units |-> {}, assignments |-> <<>>]

NoResponse == [op |-> "none", code |-> None, error |-> "none", body |-> {}]

\* The response of an HTTP handler: its status code; a code of 400 and above
\* is an HTTPException the handler raised.
Http(op, code) ==
    [op |-> op, code |-> code,
     error |-> IF code >= 400 THEN "HTTPException" ELSE "none", body |-> {}]

\* An auto-assignment that marks the incident assigned whatever was found.
auto_assign_always(rows, id, nearest_unit) ==
    [rows EXCEPT ![id].assigned_unit_id = nearest_unit,
                 ![id].status = "assigned"]

\* The auto-assignment block of create_incident: the rows after it, given the
\* unit find_nearest_rescue_unit returned (None when it found no unit).
auto_assign(rows, id, nearest_unit) ==
    IF nearest_unit # None
    THEN [rows EXCEPT ![id].assigned_unit_id = nearest_unit,
                      ![id].status = "assigned"]
    ELSE rows

\* POST /incidents/ : create_incident.  A zero latitude is rejected as a
\* missing coordinate; a high or critical incident is auto-assigned.
create_incident(current_user, incident_type, severity, lat, people) ==
    /\ Len(incidents) < MaxIncidents
    /\ IF lat = 0
       THEN /\ response' = Http("create_incident", 400)
            /\ UNCHANGED <<incidents, units>>
       ELSE LET id == Len(incidents) + 1
                added == Append(incidents,
                                NewIncident(current_user.id, incident_type, severity,
                                            lat, people, now))
                found == find_nearest_rescue_unit(units, lat, DefaultRadiusKm, {})
            IN  /\ \/ /\ severity \in {"high", "critical"}
                      /\ found # {}
                      /\ \E nearest_unit \in found :
                            incidents' = auto_assign(added, id, nearest_unit)
                   \/ /\ ~(severity \in {"high", "critical"} /\ found # {})
                      /\ incidents' = auto_assign(added, id, None)
                /\ response' = Http("create_incident", 201)
                /\ UNCHANGED units
    /\ UNCHANGED <<rescue_units_id_seq, now, reqs, plan>>

\* create_incident, one request r with its own session, statement by
\* statement: the insert and its commit, the nearest-unit query, the write of
\* the assignment and its commit.  Other requests' statements may fall between.
create_insert(r, current_user, incident_type, severity, lat, people) ==
    /\ reqs[r].pc = "idle"
    /\ Len(incidents) < MaxIncidents
    /\ IF lat = 0
       THEN /\ reqs' = [reqs EXCEPT ![r].pc = "done", ![r].code = 400]
            /\ response' = Http("create_incident", 400)
            /\ UNCHANGED incidents
       ELSE /\ incidents' = Append(incidents,
                                   NewIncident(current_user.id, incident_type, severity,
                                               lat, people, now))
            /\ IF severity \in {"high", "critical"}
               THEN /\ reqs' = [reqs EXCEPT ![r].pc = "select",
                                            ![r].incident_id = Len(incidents) + 1]
                    /\ UNCHANGED response
               ELSE /\ reqs' = [reqs EXCEPT ![r].pc = "done",
                                            ![r].incident_id = Len(incidents) + 1,
                                            ![r].code = 201]
                    /\ response' = Http("create_incident", 201)
    /\ UNCHANGED <<units, rescue_units_id_seq, now, plan>>

\* nearest_unit = find_nearest_rescue_unit(db, latitude, longitude)
create_select(r) ==
    /\ reqs[r].pc = "select"
    /\ LET found == find_nearest_rescue_unit(units, incidents[reqs[r].incident_id].lat,
                                             DefaultRadiusKm, {})
       IN  \/ /\ found = {}
              /\ reqs' = [reqs EXCEPT ![r].pc = "done", ![r].code = 201]
              /\ response' = Http("create_incident", 201)
           \/ /\ \E nearest_unit \in found :
                    reqs' = [reqs EXCEPT ![r].pc = "assign",
                                         ![r].rescue_unit_id = nearest_unit]
              /\ UNCHANGED response
    /\ UNCHANGED <<incidents, units, rescue_units_id_seq, now, plan>>

\* db_incident.assigned_unit_id = nearest_unit.id; db_incident.status =
\* ASSIGNED; db.commit(); return
create_assign(r) ==
    /\ reqs[r].pc = "assign"
    /\ incidents' = auto_assign(incidents, reqs[r].incident_id, reqs[r].rescue_unit_id)
    /\ reqs' = [reqs EXCEPT ![r].pc = "done", ![r].code = 201]
    /\ response' = Http("create_incident", 201)
    /\ UNCHANGED <<units, rescue_units_id_seq, now, plan>>

\* A field the body of a PUT request does not carry (exclude_unset drops it):
\* Unset for a number, "unset" for a name.
Unset == -2

\* The body of PUT /incidents/{id}, IncidentUpdate, in the fields the model
\* keeps.
IncidentUpdate(status, severity, people, unit, resolved_at) ==
    [status |-> status, severity |-> severity, affected_people_count |-> people,
     assigned_unit_id |-> unit, resolved_at |-> resolved_at]

StatusUpdate(status) == IncidentUpdate(status, "unset", Unset, Unset, Unset)

\* PUT /incidents/{id} : update_incident.  404 for no row; 403 for a user who
\* is neither the reporter nor allowed to view all incidents; then every
\* field of the body is written with setattr.  The resolved_at stamp is
\* guarded by a comparison made after the status has been written.  An
\* assigned_unit_id that is no unit's id violates the foreign key at the
\* commit (SQLAlchemyError: rollback, 500).
update_incident(current_user, id, body) ==
    /\ IF ~stored(incidents, id)
       THEN /\ response' = Http("update_incident", 404)
            /\ UNCHANGED incidents
       ELSE IF ~(\/ incidents[id].reporter_id = current_user.id
                 \/ can_view_all_incidents(current_user))
       THEN /\ response' = Http("update_incident", 403)
            /\ UNCHANGED incidents
       ELSE IF body.assigned_unit_id \notin DOMAIN units \cup {Unset, None}
       THEN /\ response' = Http("update_incident", 500)
            /\ UNCHANGED incidents
       ELSE LET inc == incidents[id]
                set1 == [inc EXCEPT
                           !.status = IF body.status # "unset" THEN body.status ELSE @,
                           !.severity = IF body.severity # "unset" THEN body.severity ELSE @,
                           !.affected_people_count =
                               IF body.affected_people_count # Unset
                               THEN body.affected_people_count ELSE @,
                           !.assigned_unit_id =
                               IF body.assigned_unit_id # Unset
                               THEN body.assigned_unit_id ELSE @,
                           !.resolved_at =
                               IF body.resolved_at # Unset THEN body.resolved_at ELSE @]
                set2 == IF body.status = "resolved" /\ set1.status # "resolved"
                        THEN [set1 EXCEPT !.resolved_at = now] ELSE set1
            IN  /\ incidents' = [incidents EXCEPT ![id] = set2]
                /\ response' = Http("update_incident", 200)
    /\ UNCHANGED <<units, rescue_units_id_seq, now, reqs, plan>>

\* DELETE /incidents/{id} : delete_incident, for administrators and the
\* command center (require_role answers 403 to the others).  The row is
\* deleted; no unit is touched.
delete_incident(current_user, id) ==
    /\ IF ~require_role(current_user, {"admin", "command_center"})
       THEN /\ response' = Http("delete_incident", 403)
            /\ UNCHANGED incidents
       ELSE IF ~stored(incidents, id)
       THEN /\ response' = Http("delete_incident", 404)
            /\ UNCHANGED incidents
       ELSE /\ incidents' = [incidents EXCEPT ![id] = NoRow]
            /\ response' = Http("delete_incident", 200)
    /\ UNCHANGED <<units, rescue_units_id_seq, now, reqs, plan>>

\* Incident.update_status called on the incident id; the incident is left as
\* the call leaves it, also when the call raises.
incident_update_status(id, new_status) ==
    /\ stored(incidents, id)
    /\ LET r == update_status(incidents[id], new_status, now)
       IN  /\ incidents' = [incidents EXCEPT ![id] = r.inc]
           /\ response' = [op |-> "update_status", code |-> None, error |-> r.error, body |-> {}]
    /\ UNCHANGED <<units, rescue_units_id_seq, now, reqs, plan>>

\* POST /incidents/assign : assign_incident_to_unit, one request r with its
\* own session.  The handler's queries and its commit are separate statements
\* on the database; other requests' statements may fall between them.
\* The request ends with an HTTP status and forgets its session.
finish(r, code) ==
    /\ reqs' = [reqs EXCEPT ![r] = [IdleReq EXCEPT !.pc = "done",
                                                   !.incident_id = reqs[r].incident_id,
                                                   !.rescue_unit_id = reqs[r].rescue_unit_id,
                                                   !.code = code]]
    /\ response' = Http("assign", code)

\* incident = db.query(Incident).filter(id == incident_id).first()
assign_read_incident(r) ==
    /\ reqs[r].pc = "read_incident"
    /\ IF ~stored(incidents, reqs[r].incident_id)
       THEN finish(r, 404)
       ELSE /\ reqs' = [reqs EXCEPT ![r].pc = "read_unit",
                                    ![r].inc_status = incidents[reqs[r].incident_id].status,
                                    ![r].inc_unit = incidents[reqs[r].incident_id].assigned_unit_id]
            /\ UNCHANGED response
    /\ UNCHANGED <<incidents, units, rescue_units_id_seq, now, plan>>

\* rescue_unit = db.query(RescueUnit).filter(id == rescue_unit_id).first()
assign_read_unit(r) ==
    /\ reqs[r].pc = "read_unit"
    /\ IF reqs[r].rescue_unit_id \notin DOMAIN units
       THEN finish(r, 404)
       ELSE /\ reqs' = [reqs EXCEPT ![r].pc = "check",
                                    ![r].unit_status = units[reqs[r].rescue_unit_id].status,
                                    ![r].unit_active = units[reqs[r].rescue_unit_id].is_active]
            /\ UNCHANGED response
    /\ UNCHANGED <<incidents, units, rescue_units_id_seq, now, plan>>

\* if not safe_get_property(rescue_unit, 'is_available', False): 400
assign_check(r) ==
    /\ reqs[r].pc = "check"
    /\ IF ~is_available([status |-> reqs[r].unit_status, is_active |-> reqs[r].unit_active])
       THEN finish(r, 400)
       ELSE /\ reqs' = [reqs EXCEPT ![r].pc = "commit"]
            /\ UNCHANGED response
    /\ UNCHANGED <<incidents, units, rescue_units_id_seq, now, plan>>

\* The unit row after the handler's write: rescue_unit.status = "busy".  The
\* value is the plain string, not a member of UnitStatus: the Enum column
\* hands it to the database as it is, and the commit goes through or raises
\* a SQLAlchemyError (rollback, 500) as the database's unitstatus type has the
\* label or not.  Both outcomes are kept.
assign_unit_write(unit, incident_id) == [unit EXCEPT !.status = "busy"]

\* The incident row after the handler's writes.  The session's UPDATE names
\* only the columns whose new value differs from the value the session loaded
\* (loaded_status, loaded_unit); the other columns keep the stored value.
assign_incident_write(inc, loaded_status, loaded_unit, rescue_unit_id) ==
    [inc EXCEPT !.assigned_unit_id =
                    IF loaded_unit # rescue_unit_id THEN rescue_unit_id ELSE @,
                !.status =
                    IF loaded_status # "assigned" THEN "assigned" ELSE @]

\* The attribute writes and db.commit().  The UPDATE of the unit row matches
\* no row when the unit has been deleted meanwhile, and the flush raises
\* (rollback, 500).
assign_commit(r) ==
    /\ reqs[r].pc = "commit"
    /\ LET i == reqs[r].incident_id
           u == reqs[r].rescue_unit_id
       IN  \/ /\ u \in DOMAIN units
              /\ incidents' =
                    [incidents EXCEPT
                       ![i] = assign_incident_write(@, reqs[r].inc_status,
                                                    reqs[r].inc_unit, u)]
              /\ units' = [units EXCEPT ![u] = assign_unit_write(@, i)]
              /\ finish(r, 200)
           \/ /\ UNCHANGED <<incidents, units>>
              /\ finish(r, 500)
    /\ UNCHANGED <<rescue_units_id_seq, now, plan>>

\* assign_incident_to_unit run from its first query to its commit with no
\* other request in between (the handler is a coroutine without an await).
assign_incident_to_unit(incident_id, rescue_unit_id) ==
    /\ IF ~stored(incidents, incident_id) \/ rescue_unit_id \notin DOMAIN units
       THEN /\ response' = Http("assign", 404)
            /\ UNCHANGED <<incidents, units>>
       ELSE IF ~is_available(units[rescue_unit_id])
       THEN /\ response' = Http("assign", 400)
            /\ UNCHANGED <<incidents, units>>
       ELSE \/ /\ incidents' =
                     [incidents EXCEPT
                        ![incident_id] =
                            assign_incident_write(@, @.status, @.assigned_unit_id,
                                                  rescue_unit_id)]
               /\ units' = [units EXCEPT
                              ![rescue_unit_id] = assign_unit_write(@, incident_id)]
               /\ response' = Http("assign", 200)
            \/ /\ UNCHANGED <<incidents, units>>
               /\ response' = Http("assign", 500)
    /\ UNCHANGED <<rescue_units_id_seq, now, reqs, plan>>

\* ---------------------------------------- routers/rescue_units.py handlers

\* The permission check of update_unit_status and update_unit_location.
may_update_unit(current_user, unit) ==
    \/ can_manage_rescue_units(current_user)
    \/ current_user.full_name = unit.team_leader

\* PUT /rescue-units/{unit_id}/status : update_unit_status.  404 for no row;
\* 403 for a user who neither manages rescue units nor leads the unit; then
\* the status column, and no other, is written and committed.  The dict the
\* handler returns carries "updated_at": func.now(), a SQL expression that
\* the response serialization (response_model=dict) cannot encode: the
\* exception is raised after the handler has returned and main.py's
\* general_exception_handler answers 500; the status stays written.
update_unit_status(current_user, u, new_status) ==
    /\ IF u \notin DOMAIN units
       THEN /\ response' = Http("update_unit_status", 404)
            /\ UNCHANGED units
       ELSE IF ~may_update_unit(current_user, units[u])
       THEN /\ response' = Http("update_unit_status", 403)
            /\ UNCHANGED units
       ELSE /\ units' = [units EXCEPT ![u].status = new_status]
            /\ response' = [Http("update_unit_status", 500) EXCEPT
                               !.error = "PydanticSerializationError"]
    /\ UNCHANGED <<incidents, rescue_units_id_seq, now, reqs, plan>>

\* PUT /rescue-units/{unit_id}/location : update_unit_location.  The same
\* 404 and 403; then the location is written, and the status when the body
\* carries one ("unset" when it does not).
update_unit_location(current_user, u, lat, new_status) ==
    /\ IF u \notin DOMAIN units
       THEN /\ response' = Http("update_unit_location", 404)
            /\ UNCHANGED units
       ELSE IF ~may_update_unit(current_user, units[u])
       THEN /\ response' = Http("update_unit_location", 403)
            /\ UNCHANGED units
       ELSE /\ units' = [units EXCEPT
                            ![u].lat = lat,
                            ![u].status = IF new_status # "unset" THEN new_status ELSE @]
            /\ response' = Http("update_unit_location", 200)
    /\ UNCHANGED <<incidents, rescue_units_id_seq, now, reqs, plan>>

\* The body of PUT /rescue-units/{unit_id}, RescueUnitUpdate, in the fields
\* the model keeps.
RescueUnitUpdate(unit_name, unit_type, status, team_leader) ==
    [unit_name |-> unit_name, unit_type |-> unit_type, status |-> status,
     team_leader |-> team_leader]

\* PUT /rescue-units/{unit_id} : update_rescue_unit, for the command center
\* and administrators.  Every field of the body is written with setattr; a
\* unit_name another row has violates the unique index at the commit
\* (rollback, 500).  After the commit _format_unit_response calls the
\* property RescueUnit.is_available as a method: TypeError, caught by the
\* handler, rollback of nothing, 500 with the fields written.
update_rescue_unit(current_user, u, body) ==
    /\ IF ~require_role(current_user, {"command_center", "admin"})
       THEN /\ response' = Http("update_rescue_unit", 403)
            /\ UNCHANGED units
       ELSE IF u \notin DOMAIN units
       THEN /\ response' = Http("update_rescue_unit", 404)
            /\ UNCHANGED units
       ELSE IF \E v \in DOMAIN units \ {u} : units[v].unit_name = body.unit_name
       THEN /\ response' = Http("update_rescue_unit", 500)
            /\ UNCHANGED units
       ELSE /\ units' =
                  [units EXCEPT
                     ![u].unit_name = IF body.unit_name # "unset" THEN body.unit_name ELSE @,
                     ![u].unit_type = IF body.unit_type # "unset" THEN body.unit_type ELSE @,
                     ![u].status = IF body.status # "unset" THEN body.status ELSE @,
                     ![u].team_leader =
                         IF body.team_leader # "unset" THEN body.team_leader ELSE @]
            /\ response' = Http("update_rescue_unit", 500)
    /\ UNCHANGED <<incidents, rescue_units_id_seq, now, reqs, plan>>

\* POST /rescue-units/{unit_id}/maintenance : schedule_maintenance, for the
\* command center and administrators.  The unit goes to maintenance when the
\* scheduled date is not in the future.  A date sent with a UTC offset
\* (aware) cannot be compared with the naive datetime.now(): TypeError,
\* rollback, 500.
schedule_maintenance(current_user, u, scheduled_date, aware) ==
    /\ IF ~require_role(current_user, {"command_center", "admin"})
       THEN /\ response' = Http("schedule_maintenance", 403)
            /\ UNCHANGED units
       ELSE IF u \notin DOMAIN units
       THEN /\ response' = Http("schedule_maintenance", 404)
            /\ UNCHANGED units
       ELSE IF aware
       THEN /\ response' = Http("schedule_maintenance", 500)
            /\ UNCHANGED units
       ELSE /\ units' = [units EXCEPT
                            ![u].status = IF scheduled_date <= now THEN "maintenance" ELSE @]
            /\ response' = Http("schedule_maintenance", 200)
    /\ UNCHANGED <<incidents, rescue_units_id_seq, now, reqs, plan>>

\* POST /rescue-units/ : create_rescue_unit, for the command center and
\* administrators.  400 when a unit has the name; else the unit is stored
\* with status AVAILABLE and the next id of the sequence (add, commit,
\* refresh), and _format_unit_response then raises the TypeError of
\* update_rescue_unit: 500 with the unit stored.
create_rescue_unit(current_user, unit_name, unit_type, team_leader, lat) ==
    /\ rescue_units_id_seq < NumUnits
    /\ IF ~require_role(current_user, {"command_center", "admin"})
       THEN /\ response' = Http("create_rescue_unit", 403)
            /\ UNCHANGED <<units, rescue_units_id_seq>>
       ELSE IF \E v \in DOMAIN units : units[v].unit_name = unit_name
       THEN /\ response' = Http("create_rescue_unit", 400)
            /\ UNCHANGED <<units, rescue_units_id_seq>>
       ELSE /\ rescue_units_id_seq' = rescue_units_id_seq + 1
            /\ units' = [v \in DOMAIN units \cup {rescue_units_id_seq + 1} |->
                            IF v \in DOMAIN units THEN units[v]
                            ELSE NewUnit(unit_name, unit_type, team_leader, lat, now)]
            /\ response' = Http("create_rescue_unit", 500)
    /\ UNCHANGED <<incidents, now, reqs, plan>>

\* ------------------------------------------------------ delete_rescue_unit
\* DELETE /rescue-units/{unit_id}, statement by statement in its own session.

delete_finish(r, code) ==
    /\ reqs' = [reqs EXCEPT ![r] = [IdleReq EXCEPT !.pc = "done",
                                                   !.rescue_unit_id = reqs[r].rescue_unit_id,
                                                   !.code = code]]
    /\ response' = Http("delete_rescue_unit", code)

\* unit = db.query(RescueUnit).filter(RescueUnit.id == unit_id).first()
delete_read_unit(r) ==
    /\ reqs[r].pc = "delete_read"
    /\ IF reqs[r].rescue_unit_id \notin DOMAIN units
       THEN delete_finish(r, 404)
       ELSE /\ reqs' = [reqs EXCEPT ![r].pc = "delete_count"]
            /\ UNCHANGED response
    /\ UNCHANGED <<incidents, units, rescue_units_id_seq, now, plan>>

\* The incidents the count query matches: assigned_unit_id == unit_id and
\* status in ("assigned", "in_progress").
active_incidents(rows, unit_id) ==
    { i \in DOMAIN rows : /\ rows[i].assigned_unit_id = unit_id
                          /\ rows[i].status \in {"assigned", "in_progress"} }

\* active_incidents = db.query(Incident).filter(...).count(); 400 when it is
\* positive.  The statuses are given as plain strings, which the Enum column
\* hands to the database as they are: the query raises (rollback, 500) when
\* the database's incidentstatus type has no such label.  Both outcomes are
\* kept.
delete_count(r) ==
    /\ reqs[r].pc = "delete_count"
    /\ \/ IF active_incidents(incidents, reqs[r].rescue_unit_id) # {}
          THEN delete_finish(r, 400)
          ELSE /\ reqs' = [reqs EXCEPT ![r].pc = "delete_select"]
               /\ UNCHANGED response
       \/ delete_finish(r, 500)
    /\ UNCHANGED <<incidents, units, rescue_units_id_seq, now, plan>>

\* db.delete(unit); db.commit(), first statement of the flush: the rows of
\* unit.assigned_incidents are loaded (SELECT ... WHERE assigned_unit_id =
\* unit.id) into the session.
delete_select(r) ==
    /\ reqs[r].pc = "delete_select"
    /\ reqs' = [reqs EXCEPT
                  ![r].pc = "delete_commit",
                  ![r].assigned_incidents =
                      { i \in DOMAIN incidents :
                          incidents[i].assigned_unit_id = reqs[r].rescue_unit_id }]
    /\ UNCHANGED <<incidents, units, rescue_units_id_seq, now, plan, response>>

\* The incidents table after the UPDATE statements of the flush: the
\* assigned_unit_id of every loaded row is set to NULL.
delete_nullify(rows, assigned_incidents) ==
    [i \in DOMAIN rows |->
        IF i \in assigned_incidents
        THEN [rows[i] EXCEPT !.assigned_unit_id = None] ELSE rows[i]]

\* The rest of the flush and the commit: the loaded rows are updated and the
\* unit row is deleted.  The DELETE violates the foreign key of
\* incidents.assigned_unit_id (declared without ON DELETE) when a row that
\* was not loaded references the unit: the flush raises and the handler
\* rolls back and answers 500.  When another request has deleted the unit
\* meanwhile the DELETE matches no row, which SQLAlchemy only warns about:
\* the commit succeeds and the handler answers 200.
delete_commit(r) ==
    /\ reqs[r].pc = "delete_commit"
    /\ LET u == reqs[r].rescue_unit_id
           updated == delete_nullify(incidents, reqs[r].assigned_incidents)
       IN  IF /\ u \in DOMAIN units
              /\ \E i \in DOMAIN updated : updated[i].assigned_unit_id = u
           THEN /\ UNCHANGED <<incidents, units>>
                /\ delete_finish(r, 500)
           ELSE /\ incidents' = updated
                /\ units' = [v \in DOMAIN units \ {u} |-> units[v]]
                /\ delete_finish(r, 200)
    /\ UNCHANGED <<rescue_units_id_seq, now, plan>>

\* DELETE /rescue-units/{unit_id} as one step, for administrators: the
\* statements above in one session with no other request in between.  Every
\* incident that references the unit is loaded and set to NULL in the flush,
\* so that the DELETE of the unit violates no foreign key.
delete_rescue_unit(current_user, u) ==
    /\ IF ~require_role(current_user, {"admin"})
       THEN /\ response' = Http("delete_rescue_unit", 403)
            /\ UNCHANGED <<incidents, units>>
       ELSE IF u \notin DOMAIN units
       THEN /\ response' = Http("delete_rescue_unit", 404)
            /\ UNCHANGED <<incidents, units>>
       ELSE \/ IF active_incidents(incidents, u) # {}
               THEN /\ response' = Http("delete_rescue_unit", 400)
                    /\ UNCHANGED <<incidents, units>>
               ELSE /\ incidents' = delete_nullify(incidents,
                                       { i \in DOMAIN incidents :
                                           incidents[i].assigned_unit_id = u })
                    /\ units' = [v \in DOMAIN units \ {u} |-> units[v]]
                    /\ response' = Http("delete_rescue_unit", 200)
            \/ /\ response' = Http("delete_rescue_unit", 500)
               /\ UNCHANGED <<incidents, units>>
    /\ UNCHANGED <<rescue_units_id_seq, now, reqs, plan>>

\* ------------------------------------------------------ scripts/seed_db.py
\* run_diagnostics, also behind GET /dev/seed-demo-data, in a session of its
\* own (reqs[r]); every row is added, committed and refreshed by itself, and
\* the handlers of other requests run between two rows.

\* demo_units of create_demo_rescue_units: five units around Madurai
\* (latitude 9.9, the tenth of a degree the model keeps).
demo_units ==
    << [unit_name |-> "Fire Rescue Alpha-1", unit_type |-> "fire_rescue",
        status |-> "available", team_leader |-> "Captain Rajesh Kumar"],
       [unit_name |-> "Medical Emergency Unit-1", unit_type |-> "medical",
        status |-> "available", team_leader |-> "Dr. Priya Sharma"],
       [unit_name |-> "Water Rescue Boat-1", unit_type |-> "water_rescue",
        status |-> "busy", team_leader |-> "Lieutenant Suresh"],
       [unit_name |-> "Police Patrol Unit-5", unit_type |-> "police",
        status |-> "en_route", team_leader |-> "Inspector Vijay"],
       [unit_name |-> "Search Rescue Helicopter", unit_type |-> "search_rescue",
        status |-> "available", team_leader |-> "Captain Anita Singh"] >>

\* demo_incidents of create_demo_incidents, reported by the demo field
\* responder, with the status the script gives them and no timestamp but
\* created_at.
demo_incidents(t) ==
    << [NewIncident(Reporter.id, "flood", "high", 99, 15, t)
           EXCEPT !.status = "reported"],
       [NewIncident(Reporter.id, "rescue_needed", "critical", 99, 4, t)
           EXCEPT !.status = "assigned"],
       [NewIncident(Reporter.id, "road_closure", "medium", 99, 0, t)
           EXCEPT !.status = "in_progress"],
       [NewIncident(Reporter.id, "power_outage", "high", 99, 500, t)
           EXCEPT !.status = "reported"],
       [NewIncident(Reporter.id, "medical_emergency", "critical", 99, 1, t)
           EXCEPT !.status = "reported"] >>

\* create_demo_rescue_units, one iteration of its loop: the demo unit of the
\* iteration is inserted with the status the script gives it, unless a unit
\* of its name is stored.  The first iteration starts the run.
create_demo_rescue_units(r) ==
    /\ reqs[r].pc \in {"idle", "create_demo_rescue_units"}
    /\ LET k == IF reqs[r].pc = "idle" THEN 1 ELSE reqs[r].idx
           unit_data == demo_units[k]
       IN  /\ IF \E v \in DOMAIN units : units[v].unit_name = unit_data.unit_name
              THEN UNCHANGED <<units, rescue_units_id_seq>>
              ELSE /\ rescue_units_id_seq' = rescue_units_id_seq + 1
                   /\ units' = [v \in DOMAIN units \cup {rescue_units_id_seq + 1} |->
                                   IF v \in DOMAIN units THEN units[v]
                                   ELSE [NewUnit(unit_data.unit_name, unit_data.unit_type,
                                                 unit_data.team_leader, 99, now)
                                            EXCEPT !.status = unit_data.status]]
           /\ reqs' = [reqs EXCEPT
                         ![r].pc = IF k = Len(demo_units) THEN "create_demo_incidents"
                                   ELSE "create_demo_rescue_units",
                         ![r].idx = IF k = Len(demo_units) THEN 1 ELSE k + 1]
    /\ UNCHANGED <<incidents, now, plan, response>>

\* create_demo_incidents, one iteration of its loop, and after the last one
\* the assignment: the first incident whose title contains "stranded" (the
\* rescue_needed one) gets the unit with call sign WR-B1 (Water Rescue
\* Boat-1) as assigned_unit_id, when both exist.
create_demo_incidents(r) ==
    /\ reqs[r].pc = "create_demo_incidents"
    /\ IF reqs[r].idx <= Len(demo_incidents(now))
       THEN /\ incidents' = Append(incidents, demo_incidents(now)[reqs[r].idx])
            /\ reqs' = [reqs EXCEPT ![r].idx = @ + 1]
       ELSE LET stranded == { i \in DOMAIN incidents :
                               incidents[i].incident_type = "rescue_needed" }
                boats == { v \in DOMAIN units :
                            units[v].unit_name = "Water Rescue Boat-1" }
            IN  /\ incidents' =
                      IF stranded # {} /\ boats # {}
                      THEN [incidents EXCEPT
                              ![CHOOSE i \in stranded : \A j \in stranded : i <= j]
                                 .assigned_unit_id =
                                     CHOOSE v \in boats : \A w \in boats : v <= w]
                      ELSE incidents
                /\ reqs' = [reqs EXCEPT ![r].pc = "done"]
    /\ UNCHANGED <<units, rescue_units_id_seq, now, plan, response>>

\* run_diagnostics: create_demo_rescue_units, then create_demo_incidents.
run_diagnostics(r) ==
    \/ create_demo_rescue_units(r)
    \/ create_demo_incidents(r)

\* ------------------------------------------- optimize_unit_assignments

\* The sort key of sorted_incidents, compared as Python compares tuples:
\* (severity == 'critical', severity == 'high', affected_people_count).
key_less(a, b) ==
    LET a1 == IF a.severity = "critical" THEN 1 ELSE 0
        b1 == IF b.severity = "critical" THEN 1 ELSE 0
        a2 == IF a.severity = "high" THEN 1 ELSE 0
        b2 == IF b.severity = "high" THEN 1 ELSE 0
    IN  \/ a1 < b1
        \/ a1 = b1 /\ a2 < b2
        \/ a1 = b1 /\ a2 = b2 /\ a.affected_people_count < b.affected_people_count

\* sorted(..., reverse=True) is stable: an element goes before the first
\* element of smaller key, after every element of equal key met before it.
RECURSIVE insert_stable(_, _, _)
insert_stable(rows, acc, id) ==
    IF acc = <<>> THEN <<id>>
    ELSE IF key_less(rows[Head(acc)], rows[id]) THEN <<id>> \o acc
    ELSE <<Head(acc)>> \o insert_stable(rows, Tail(acc), id)

RECURSIVE sort_fold(_, _, _)
sort_fold(rows, input, acc) ==
    IF input = <<>> THEN acc
    ELSE sort_fold(rows, Tail(input), insert_stable(rows, acc, Head(input)))

\* sorted_incidents = sorted(incidents, key=..., reverse=True), as ids
sorted_incidents(rows, input) == sort_fold(rows, input, <<>>)

\* The candidates of one loop iteration: available units not in used_units,
\* within max_radius_km, nearest first.
plan_candidates(pool, lat, used_units) ==
    nearest_units(pool, lat, DefaultRadiusKm, used_units)

\* if not incident.latitude or not incident.longitude:
\*     assignments.append((incident, None)); continue
without_coordinates(assignments, id) == Append(assignments, <<id, None>>)

\* The call: the incidents are sorted, the loop has not started.  idx is the
\* position of the loop in sorted_incidents.
plan_begin(input) ==
    /\ plan.pc \in {"idle", "done", "raised"}
    /\ plan' = [pc |-> IF input = <<>> THEN "done" ELSE "loop",
                input |-> input,
                sorted_incidents |-> sorted_incidents(incidents, input),
                idx |-> 1,
                used_units |-> {},
                assignments |-> <<>>]
    /\ response' = NoResponse
    /\ UNCHANGED <<incidents, units, rescue_units_id_seq, now, reqs>>

\* An iteration that takes the coordinates from the row and commits each
\* pair as it is planned: the unit chosen is marked busy and the incident
\* assigned to it.
plan_step_committing ==
    /\ plan.pc = "loop"
    /\ LET id == plan.sorted_incidents[plan.idx]
           pc2 == IF plan.idx = Len(plan.sorted_incidents) THEN "done" ELSE "loop"
           found == plan_candidates(units, incidents[id].lat, plan.used_units)
       IN  IF incidents[id].lat = 0 \/ found = {}
           THEN /\ plan' = [plan EXCEPT !.pc = pc2, !.idx = @ + 1,
                                        !.assignments = Append(@, <<id, None>>)]
                /\ UNCHANGED <<incidents, units>>
           ELSE \E nearest_unit \in found :
                    /\ plan' = [plan EXCEPT !.pc = pc2, !.idx = @ + 1,
                                            !.used_units = @ \cup {nearest_unit},
                                            !.assignments = Append(@, <<id, nearest_unit>>)]
                    /\ units' = [units EXCEPT ![nearest_unit].status = "busy"]
                    /\ incidents' = [incidents EXCEPT ![id].status = "assigned",
                                                      ![id].assigned_unit_id = nearest_unit]
    /\ response' = NoResponse
    /\ UNCHANGED <<rescue_units_id_seq, now, reqs>>

\* An iteration that takes the coordinates from the row and chooses among
\* all the available units in range, those of used_units included.
plan_step_reusing ==
    /\ plan.pc = "loop"
    /\ LET id == plan.sorted_incidents[plan.idx]
           pc2 == IF plan.idx = Len(plan.sorted_incidents) THEN "done" ELSE "loop"
           found == plan_candidates(units, incidents[id].lat, {})
       IN  IF incidents[id].lat = 0 \/ found = {}
           THEN plan' = [plan EXCEPT !.pc = pc2, !.idx = @ + 1,
                                     !.assignments = Append(@, <<id, None>>)]
           ELSE \E nearest_unit \in found :
                    plan' = [plan EXCEPT !.pc = pc2, !.idx = @ + 1,
                                         !.used_units = @ \cup {nearest_unit},
                                         !.assignments = Append(@, <<id, nearest_unit>>)]
    /\ response' = NoResponse
    /\ UNCHANGED <<incidents, units, rescue_units_id_seq, now, reqs>>

\* One iteration of `for incident in sorted_incidents`; the last one returns.
\* The condition of line 159 reads incident.latitude first: when the read
\* raises, nothing catches the error, the call ends with it and its local
\* list is lost (pc "raised").  An incident without location is paired with
\* None.  Past the condition the query runs, and the incident is paired with
\* the unit .first() returns or with None.
plan_step ==
    /\ plan.pc = "loop"
    /\ LET id == plan.sorted_incidents[plan.idx]
           pc2 == IF plan.idx = Len(plan.sorted_incidents) THEN "done" ELSE "loop"
           lat == Incident_latitude(incidents[id])
           found == plan_candidates(units, lat.value, plan.used_units)
       IN  IF lat.error # "none"
           THEN /\ plan' = [plan EXCEPT !.pc = "raised"]
                /\ response' = [op |-> "optimize_unit_assignments", code |-> None,
                                error |-> lat.error, body |-> {}]
           ELSE /\ response' = NoResponse
                /\ IF lat.value = 0
                   THEN plan' = [plan EXCEPT !.pc = pc2, !.idx = @ + 1,
                                             !.assignments = without_coordinates(@, id)]
                   ELSE IF found = {}
                   THEN plan' = [plan EXCEPT !.pc = pc2, !.idx = @ + 1,
                                             !.assignments = Append(@, <<id, None>>)]
                   ELSE \E nearest_unit \in found :
                           plan' = [plan EXCEPT !.pc = pc2, !.idx = @ + 1,
                                                !.used_units = @ \cup {nearest_unit},
                                                !.assignments = Append(@, <<id, nearest_unit>>)]
    /\ UNCHANGED <<incidents, units, rescue_units_id_seq, now, reqs>>

\* A call of Incident.calculate_priority_score on the stored incident id: the
\* response carries the score.
incident_calculate_priority_score(id) ==
    /\ stored(incidents, id)
    /\ LET r == calculate_priority_score(incidents[id], now)
       IN  response' = [op |-> "calculate_priority_score", code |-> r.score,
                        error |-> r.error, body |-> {}]
    /\ UNCHANGED <<incidents, units, rescue_units_id_seq, now, reqs, plan>>

\* Incident.update_priority_score on the stored incident id:
\* self.priority_score = self.calculate_priority_score(); nothing is assigned
\* when the computation raises.
update_priority_score(id) ==
    /\ stored(incidents, id)
    /\ LET r == calculate_priority_score(incidents[id], now)
       IN  /\ incidents' = IF r.error = "none"
                           THEN [incidents EXCEPT ![id].priority_score = r.score]
                           ELSE incidents
           /\ response' = [op |-> "update_priority_score", code |-> None,
                           error |-> r.error, body |-> {}]
    /\ UNCHANGED <<units, rescue_units_id_seq, now, reqs, plan>>

\* A call of find_nearest_rescue_unit(db, latitude, longitude, radius_km,
\* unit_types): the response carries the id of the unit returned, None when
\* the function returns None.
find_nearest_call(lat, radius_km, unit_types) ==
    /\ LET found == find_nearest_rescue_unit(units, lat, radius_km, unit_types)
       IN  \/ /\ found = {}
              /\ response' = [op |-> "find_nearest_rescue_unit", code |-> None,
                              error |-> "none", body |-> {}]
           \/ \E nearest_unit \in found :
                 response' = [op |-> "find_nearest_rescue_unit", code |-> nearest_unit,
                              error |-> "none", body |-> {}]
    /\ UNCHANGED <<incidents, units, rescue_units_id_seq, now, reqs, plan>>

\* A call of check_coverage_gaps: the body of the response is the list
\* returned, the error the exception the call ended with.
check_coverage_gaps_call(grid_size_km, coverage_radius_km) ==
    /\ LET r == check_coverage_gaps(units, grid_size_km, coverage_radius_km)
       IN  response' = [op |-> "check_coverage_gaps", code |-> None,
                        error |-> r.error, body |-> r.coverage_gaps]
    /\ UNCHANGED <<incidents, units, rescue_units_id_seq, now, reqs, plan>>

\* A call of RescueUnit.update_status on the unit u; the unit is left as the
\* call leaves it, also when the call raises.
unit_update_status(u, new_status, incident_id) ==
    /\ u \in DOMAIN units
    /\ LET r == RescueUnit_update_status(units[u], new_status, incident_id, now)
       IN  /\ units' = [units EXCEPT ![u] = r.unit]
           /\ response' = [op |-> "unit_update_status", code |-> None,
                           error |-> r.error, body |-> {}]
    /\ UNCHANGED <<incidents, rescue_units_id_seq, now, reqs, plan>>

\* A call of RescueUnit.schedule_maintenance on the unit u.
unit_schedule_maintenance(u, maintenance_date, aware) ==
    /\ u \in DOMAIN units
    /\ LET r == RescueUnit_schedule_maintenance(units[u], maintenance_date, aware, now)
       IN  /\ units' = [units EXCEPT ![u] = r.unit]
           /\ response' = [op |-> "unit_schedule_maintenance", code |-> None,
                           error |-> r.error, body |-> {}]
    /\ UNCHANGED <<incidents, rescue_units_id_seq, now, reqs, plan>>

\* A call of RescueUnit.update_location on the unit u.
unit_update_location(u, lat) ==
    /\ u \in DOMAIN units
    /\ units' = [units EXCEPT ![u] = RescueUnit_update_location(@, lat)]
    /\ response' = [op |-> "unit_update_location", code |-> None,
                    error |-> "none", body |-> {}]
    /\ UNCHANGED <<incidents, rescue_units_id_seq, now, reqs, plan>>

\* The unit u is committed and loaded again by the session of a later
\* request.
unit_refresh(u) ==
    /\ u \in DOMAIN units
    /\ units' = [units EXCEPT ![u] = refresh(@)]
    /\ response' = NoResponse
    /\ UNCHANGED <<incidents, rescue_units_id_seq, now, reqs, plan>>

\* ------------------------------------------------------------------ clock

tick ==
    /\ now < MaxTime
    /\ now' = now + 1
    /\ response' = NoResponse
    /\ UNCHANGED <<incidents, units, rescue_units_id_seq, reqs, plan>>

\* ------------------------------------------------------- the fleet at start

\* Unit u stands at latitude 0.1, 0.4, 0.7, ... degrees: an incident at 0.2
\* has units 1 and 2 in range (11 km, 22 km), one at 0.8 has unit 2 (44 km).
unit_lat(u) == 3 * u - 2

\* The types of the registered units: unit 1 is a police unit, unit 2 a water
\* rescue unit, unit 3 a medical unit, and so on in turn.
unit_type_of(u) ==
    CASE u % 3 = 1 -> "police"
      [] u % 3 = 2 -> "water_rescue"
      [] OTHER     -> "medical"

\* Statuses a PUT /rescue-units/{id}/status request of the model carries.
UnitStatusInputs == {"available", "dispatched"}

\* The names of the registered units, and their team leaders: the units with
\* an odd id are led by user A, the others by user B.
unit_name_of(u) == <<"U1", "U2", "U3", "U4">>[u]
team_leader_of(u) == IF u % 2 = 1 THEN "A" ELSE "B"

\* Unit u as registered at hour 1.
Registered(u) ==
    NewUnit(unit_name_of(u), unit_type_of(u), team_leader_of(u), unit_lat(u), 1)

\* The fleets of NumUnits units registered at hour 1, whose status and
\* is_active flag have been set since.
Fleets(statuses, actives) ==
    { [u \in UnitIds |-> [Registered(u) EXCEPT !.status = st[u], !.is_active = act[u]]] :
        st \in [UnitIds -> statuses], act \in [UnitIds -> actives] }

\* --------------------------------------------------------- specifications

\* Spec: the handlers of the incidents router and update_unit_status, run one
\* after the other on one database that starts with the fleet registered and
\* no incident.
Init ==
    /\ incidents = <<>>
    /\ units \in Fleets({"available"}, {TRUE})
    /\ rescue_units_id_seq = Cardinality(DOMAIN units)
    /\ now = 1
    /\ reqs = [r \in ReqIds |-> IdleReq]
    /\ plan = IdlePlan
    /\ response = NoResponse

Next ==
    \/ \E severity \in {"low", "high"}, lat \in IncidentLats :
          create_incident(Reporter, "flood", severity, lat, 0)
    \/ \E i \in 1..MaxIncidents, u \in 1..(NumUnits + 1) :
          assign_incident_to_unit(i, u)
    \/ \E i \in 1..MaxIncidents, st \in IncidentStatus :
          update_incident(Reporter, i, StatusUpdate(st))
    \/ \E i \in 1..MaxIncidents,
          current_user \in {user \in Users : user.role = "field_responder"} \ {Reporter} :
          update_incident(current_user, i, StatusUpdate("closed"))
    \/ \E i \in 1..MaxIncidents, u \in 1..(NumUnits + 1) \cup {None} :
          update_incident(Operator, i, IncidentUpdate("unset", "unset", Unset, u, Unset))
    \/ \E i \in 1..MaxIncidents, body \in {IncidentUpdate("unset", "critical", 5, Unset, 1)} :
          update_incident(Operator, i, body)
    \/ \E current_user \in {Reporter, Operator}, i \in 1..MaxIncidents :
          delete_incident(current_user, i)
    \/ \E current_user \in {Reporter, Operator}, u \in UnitIds, st \in UnitStatusInputs :
          update_unit_status(current_user, u, st)

Spec == Init /\ [][Next]_vars

\* SpecFleet: the handlers of the rescue-units router that register, change
\* and delete units, with incident creation and its automatic dispatch, on a
\* database that starts with unit 1 registered and no incident.  The seeding
\* script runs MaxSeedRuns times at any moment, its rows committed one by
\* one between the requests.
InitFleet ==
    /\ incidents = <<>>
    /\ units = [u \in {1} |-> Registered(u)]
    /\ rescue_units_id_seq = Cardinality(DOMAIN units)
    /\ now = 1
    /\ reqs = [r \in ReqIds |-> IdleReq]
    /\ plan = IdlePlan
    /\ response = NoResponse

NextFleet ==
    \/ \E severity \in {"low", "high", "critical"}, lat \in IncidentLats :
          create_incident(Reporter, "flood", severity, lat, 0)
    \/ \E u \in UnitIds, st \in {"available", "offline"} :
          update_unit_status(Operator, u, st)
    \/ \E u \in UnitIds :
          update_unit_location(Reporter, u, unit_lat(u) + 5, "unset")
    \/ \E current_user \in {Reporter, Operator}, u \in UnitIds :
          update_rescue_unit(current_user, u,
                             RescueUnitUpdate("unset", "medical", "offline", "unset"))
    \/ \E u \in UnitIds, aware \in BOOLEAN :
          schedule_maintenance(Operator, u, 0, aware)
    \/ \E unit_name \in {"U1", "U2"} :
          create_rescue_unit(Operator, unit_name, unit_type_of(NumUnits),
                             team_leader_of(NumUnits), unit_lat(NumUnits))
    \/ \E current_user \in {Operator, Admin}, u \in UnitIds :
          delete_rescue_unit(current_user, u)
    \/ \E r \in 1..MaxSeedRuns : run_diagnostics(r)

SpecFleet == InitFleet /\ [][NextFleet]_vars

\* SpecIncident: one incident driven through Incident.update_status while
\* the clock advances; the incident is a row loaded from the database or an
\* object built in memory.
InitIncident ==
    /\ \E inc \in {NewIncident(Reporter.id, "flood", "high", 2, 0, 1)} :
          incidents \in {<<inc>>, <<in_memory(inc)>>}
    /\ units \in Fleets({"available"}, {TRUE})
    /\ rescue_units_id_seq = Cardinality(DOMAIN units)
    /\ now = 1
    /\ reqs = [r \in ReqIds |-> IdleReq]
    /\ plan = IdlePlan
    /\ response = NoResponse

NextIncident ==
    \/ \E st \in IncidentStatus : incident_update_status(1, st)
    \/ tick

SpecIncident == InitIncident /\ [][NextIncident]_vars

\* SpecRace: NumReqs assign requests, each in its own session, admitted
\* together; their statements interleave freely.
InitRace ==
    /\ incidents = [i \in 1..MaxIncidents |-> NewIncident(Reporter.id, "flood", "low", 2, 0, 1)]
    /\ units \in Fleets({"available", "standby", "busy"}, BOOLEAN)
    /\ rescue_units_id_seq = Cardinality(DOMAIN units)
    /\ now = 1
    /\ reqs \in [ReqIds ->
                   { [IdleReq EXCEPT !.pc = "read_incident",
                                     !.incident_id = i,
                                     !.rescue_unit_id = u] :
                       i \in 1..(MaxIncidents + 1), u \in 1..(NumUnits + 1) }]
    /\ plan = IdlePlan
    /\ response = NoResponse

NextRace ==
    \E r \in ReqIds :
        \/ assign_read_incident(r)
        \/ assign_read_unit(r)
        \/ assign_check(r)
        \/ assign_commit(r)

SpecRace == InitRace /\ [][NextRace]_vars

\* SpecPlan: one batch of MaxBatch incidents, one created per hour, planned
\* against a fleet; an incident of the batch is a stored row, which has a
\* location, or an object built without one (latitude 0).  The batch is
\* handed over oldest first or newest first.
PlanProfiles ==
    { <<"critical", 2, 0>>, <<"high", 2, 0>>, <<"medium", 2, 0>>, <<"low", 2, 0>>,
      <<"low", 2, 15>>, <<"high", 8, 15>>, <<"critical", 8, 0>>, <<"medium", 0, 0>> }

Ascending(n) == [i \in 1..n |-> i]
Descending(n) == [i \in 1..n |-> n + 1 - i]

InitPlan ==
    /\ \E prof \in [1..MaxBatch -> PlanProfiles] :
          incidents = [i \in 1..MaxBatch |->
                          NewIncident(Reporter.id, "flood", prof[i][1], prof[i][2], prof[i][3], i)]
    /\ units \in Fleets({"available", "busy"}, {TRUE})
    /\ rescue_units_id_seq = Cardinality(DOMAIN units)
    /\ now = MaxBatch + 1
    /\ reqs = [r \in ReqIds |-> IdleReq]
    /\ plan = IdlePlan
    /\ response = NoResponse

NextPlan ==
    \/ \E input \in {Ascending(MaxBatch), Descending(MaxBatch)} : plan_begin(input)
    \/ plan_step

SpecPlan == InitPlan /\ [][NextPlan]_vars

\* SpecDispatch: one stored incident and the first unit of the fleet, driven
\* through Incident.update_status and RescueUnit.update_status while the clock
\* advances.
DispatchStatusInputs == {"available", "dispatched", "on_scene", "offline"}

NextDispatch ==
    \/ \E st \in IncidentStatus : incident_update_status(1, st)
    \/ \E st \in DispatchStatusInputs, i \in {None, 1} : unit_update_status(1, st, i)
    \/ tick

SpecDispatch == InitIncident /\ [][NextDispatch]_vars

\* SpecScore: two incidents, reported within an hour of each other, each a
\* row loaded from the database or an object built in memory, whose scores
\* are computed and stored while the clock advances and the first one is
\* verified or cancelled.
ScoreProfiles ==
    { [NewIncident(Reporter.id, "flood", severity, 2, people, t)
         EXCEPT !.is_mass_casualty = mass, !.created_at_aware = aware] :
        severity \in {"low", "critical"}, people \in {0, 15}, t \in {1, 2},
        mass \in BOOLEAN, aware \in BOOLEAN }

InitScore ==
    /\ incidents \in [1..2 -> ScoreProfiles]
    /\ units \in Fleets({"available"}, {TRUE})
    /\ rescue_units_id_seq = Cardinality(DOMAIN units)
    /\ now = 2
    /\ reqs = [r \in ReqIds |-> IdleReq]
    /\ plan = IdlePlan
    /\ response = NoResponse

NextScore ==
    \/ \E i \in 1..2 : incident_calculate_priority_score(i)
    \/ \E i \in 1..2 : update_priority_score(i)
    \/ \E st \in {"verified", "cancelled"} : incident_update_status(1, st)
    \/ tick

SpecScore == InitScore /\ [][NextScore]_vars

\* SpecNearest: nearest-unit searches on a fleet in every mix of four
\* statuses, of active and inactive units, with and without a type filter, with the default radius and a
\* short one.
NearestLats == {2, 5, 9}
NearestRadii == {20, DefaultRadiusKm}
NearestTypeFilters == {{}, {"water_rescue"}, {"police", "medical"}}

InitNearest ==
    /\ incidents = <<>>
    /\ units \in Fleets({"available", "standby", "busy", "offline"}, BOOLEAN)
    /\ rescue_units_id_seq = Cardinality(DOMAIN units)
    /\ now = 1
    /\ reqs = [r \in ReqIds |-> IdleReq]
    /\ plan = IdlePlan
    /\ response = NoResponse

NextNearest ==
    \/ \E lat \in NearestLats, radius_km \in NearestRadii,
          unit_types \in NearestTypeFilters :
          find_nearest_call(lat, radius_km, unit_types)
    \/ \E u \in UnitIds, st \in {"available", "standby", "maintenance"} :
          update_unit_status(Operator, u, st)

SpecNearest == InitNearest /\ [][NextNearest]_vars

\* SpecReplan: incidents are created and assigned through the handlers, then
\* one planning pass runs over all the stored incidents.
NextReplan ==
    \/ /\ plan.pc = "idle"
       /\ \E severity \in {"low", "high"}, lat \in IncidentLats :
             create_incident(Reporter, "flood", severity, lat, 0)
    \/ /\ plan.pc = "idle"
       /\ \E i \in 1..MaxIncidents, u \in UnitIds : assign_incident_to_unit(i, u)
    \/ /\ plan.pc = "idle"
       /\ incidents # <<>>
       /\ plan_begin(Ascending(Len(incidents)))
    \/ plan_step

SpecReplan == Init /\ [][NextReplan]_vars

\* SpecCreateRace: NumReqs creation requests, each in its own session, whose
\* statements interleave with each other and with unit status updates.
NextCreateRace ==
    \/ \E r \in ReqIds, severity \in {"low", "high", "critical"}, lat \in {0, 2, 5} :
          create_insert(r, Reporter, "flood", severity, lat, 0)
    \/ \E r \in ReqIds : create_select(r)
    \/ \E r \in ReqIds : create_assign(r)
    \/ \E u \in UnitIds, st \in {"available", "offline"} : update_unit_status(Operator, u, st)

SpecCreateRace == Init /\ [][NextCreateRace]_vars

\* SpecCoverage: coverage analyses of a fleet in every mix of five statuses,
\* with the default grid and radius and with coarser and wider ones.
CoverageGrids == {5, 10, 20, 150}
CoverageRadii == {25, 40}

InitCoverage ==
    /\ incidents = <<>>
    /\ units \in Fleets({"available", "busy", "maintenance", "out_of_service",
                          "offline"}, BOOLEAN)
    /\ rescue_units_id_seq = Cardinality(DOMAIN units)
    /\ now = 1
    /\ reqs = [r \in ReqIds |-> IdleReq]
    /\ plan = IdlePlan
    /\ response = NoResponse

NextCoverage ==
    \/ \E grid_size_km \in CoverageGrids, coverage_radius_km \in CoverageRadii :
          check_coverage_gaps_call(grid_size_km, coverage_radius_km)
    \/ \E u \in UnitIds, st \in {"available", "maintenance"} :
          update_unit_status(Operator, u, st)

SpecCoverage == InitCoverage /\ [][NextCoverage]_vars

\* ------------------------------------------------------------------ claims

\* The transition table as the specification states it.
StatedTransitions ==
    { <<"reported", "verified">>, <<"reported", "assigned">>, <<"reported", "cancelled">>,
      <<"verified", "assigned">>, <<"verified", "cancelled">>,
      <<"assigned", "in_progress">>, <<"assigned", "reported">>, <<"assigned", "cancelled">>,
      <<"in_progress", "resolved">>, <<"in_progress", "assigned">>,
      <<"resolved", "closed">>, <<"resolved", "in_progress">> }

\* C1: Incident.update_status succeeds exactly for the (current, target)
\* pairs of the stated table, and the incident then has the target status;
\* for every other pair, every pair out of closed or cancelled included, it
\* raises the invalid-transition error and leaves the status and all the
\* timestamps of the incident as they were.
C1_UpdateStatusTable ==
    [][\A st \in IncidentStatus :
          incident_update_status(1, st) =>
             IF <<incidents[1].status, st>> \in StatedTransitions
             THEN /\ response'.error = "none"
                  /\ incidents'[1].status = st
             ELSE /\ response'.error = "ValueError"
                  /\ incidents' = incidents]_vars

ActiveStatuses == {"assigned", "in_progress"}

\* C2: no rescue unit is the assigned unit of two different incidents that
\* are both in status assigned or in_progress, whatever the sequence of
\* creations with automatic dispatch, manual assignments and status updates.
C2_OneActiveIncidentPerUnit ==
    \A i, j \in DOMAIN incidents :
        /\ i # j
        /\ incidents[i].status \in ActiveStatuses
        /\ incidents[j].status \in ActiveStatuses
        /\ incidents[i].assigned_unit_id # None
        => incidents[i].assigned_unit_id # incidents[j].assigned_unit_id

\* C3: of two assign requests for different incidents that target the same
\* unit and whose statements interleave, at most one is answered with
\* success: none of the interleavings ends with both answered 200.
C3_ExactlyOneWins ==
    \A r1, r2 \in ReqIds :
        /\ r1 # r2
        /\ reqs[r1].pc = "done"
        /\ reqs[r2].pc = "done"
        /\ reqs[r1].rescue_unit_id = reqs[r2].rescue_unit_id
        /\ reqs[r1].incident_id # reqs[r2].incident_id
        => ~(reqs[r1].code = 200 /\ reqs[r2].code = 200)

\* C4: an assign request has two outcomes.  On success the unit has status
\* dispatched with the incident as its current incident and the incident
\* has status assigned with the unit as its assigned unit; on failure the
\* unit and the incident are as they were.
C4_AssignAllOrNothing ==
    [][\A i \in 1..MaxIncidents, u \in 1..(NumUnits + 1) :
          assign_incident_to_unit(i, u) =>
             \/ /\ response'.code = 200
                /\ units'[u].status = "dispatched"
                /\ units'[u].current_incident_id = i
                /\ incidents'[i].status = "assigned"
                /\ incidents'[i].assigned_unit_id = u
             \/ /\ response'.code # 200
                /\ units' = units
                /\ incidents' = incidents]_vars

\* The units of the pairs a planning pass has produced so far.
PlannedUnit(k) == plan.assignments[k][2]

PairsOf(id) ==
    Cardinality({k \in DOMAIN plan.assignments : plan.assignments[k][1] = id})

\* C6: a planning pass that has ended has returned a list with exactly one
\* pair for every incident it was given: none is missing, none appears
\* twice, and the result has no other pair.
C6_OnePairPerIncident ==
    plan.pc \in {"done", "raised"} =>
        /\ plan.pc = "done"
        /\ Len(plan.assignments) = Len(plan.input)
        /\ \A k \in DOMAIN plan.input : PairsOf(plan.input[k]) = 1

\* The priority score of an incident at the time of the pass, as the score
\* formula gives it.
Score(id) == calculate_priority_score(in_memory(incidents[id]), now).score

\* C7: the planner processes the incidents in descending order of priority
\* score, equal scores in ascending order of creation time.
C7_PriorityOrder ==
    plan.pc \in {"loop", "done"} =>
        \A a, b \in DOMAIN plan.sorted_incidents :
            a < b =>
               \/ Score(plan.sorted_incidents[a]) > Score(plan.sorted_incidents[b])
               \/ /\ Score(plan.sorted_incidents[a]) = Score(plan.sorted_incidents[b])
                  /\ incidents[plan.sorted_incidents[a]].created_at
                        <= incidents[plan.sorted_incidents[b]].created_at

UrgentSeverities == {"high", "critical"}

\* C8: when an incident of severity high or critical is created and the
\* nearest-unit search finds a unit, the incident is stored in status
\* assigned with that unit, and the unit is dispatched with the incident as
\* its current incident.
C8_AutoDispatchBothSides ==
    [][\A severity \in UrgentSeverities, lat \in IncidentLats \ {0} :
          /\ create_incident(Reporter, "flood", severity, lat, 0)
          /\ find_nearest_rescue_unit(units, lat, DefaultRadiusKm, {}) # {}
          => LET id == Len(incidents) + 1
             IN  /\ incidents'[id].status = "assigned"
                 /\ incidents'[id].assigned_unit_id \in
                       find_nearest_rescue_unit(units, lat, DefaultRadiusKm, {})
                 /\ units'[incidents'[id].assigned_unit_id].status = "dispatched"
                 /\ units'[incidents'[id].assigned_unit_id].current_incident_id = id]_vars

\* C9: when an incident of severity high or critical is created and the
\* nearest-unit search finds no unit, the creation succeeds all the same:
\* the incident is stored in status reported with no assigned unit, and no
\* rescue unit changes.
C9_NoUnitStillCreated ==
    [][\A severity \in UrgentSeverities, lat \in IncidentLats \ {0} :
          /\ create_incident(Reporter, "flood", severity, lat, 0)
          /\ find_nearest_rescue_unit(units, lat, DefaultRadiusKm, {}) = {}
          => /\ response'.code = 201
             /\ Len(incidents') = Len(incidents) + 1
             /\ incidents'[Len(incidents')].status = "reported"
             /\ incidents'[Len(incidents')].assigned_unit_id = None
             /\ units' = units]_vars

\* C9 witness: an urgent incident has just been created while no available
\* unit stood within the search radius; it is the last row of the table.
C9_Witness ==
    /\ response.op = "create_incident"
    /\ response.code = 201
    /\ Len(incidents) > 0
    /\ incidents[Len(incidents)].severity \in UrgentSeverities
    /\ incidents[Len(incidents)].created_at = now
    /\ find_nearest_rescue_unit(units, incidents[Len(incidents)].lat, DefaultRadiusKm, {}) = {}
    /\ incidents[Len(incidents)].status = "reported"

\* C10: an incident in status assigned or in_progress always has an
\* assigned unit, and an incident in status reported or verified has none.
C10_UnitIffAssigned ==
    \A i \in DOMAIN incidents :
        /\ incidents[i].status \in ActiveStatuses
              => incidents[i].assigned_unit_id # None
        /\ incidents[i].status \in {"reported", "verified"}
              => incidents[i].assigned_unit_id = None

\* C11: every change of an incident's status, whichever operation makes it,
\* is a transition of the stated table; none leaves closed or cancelled and
\* none takes a resolved incident to assigned.
C11_EveryChangeInTable ==
    [][\A i \in DOMAIN incidents :
          stored(incidents', i) /\ incidents'[i].status # incidents[i].status
             => <<incidents[i].status, incidents'[i].status>> \in StatedTransitions]_vars

\* C12: no unit is in status dispatched with a cancelled incident as its
\* current incident: cancelling the incident releases the unit dispatched to
\* it.
C12_CancelReleasesUnit ==
    \A u \in DOMAIN units :
        /\ units[u].status = "dispatched"
        /\ units[u].current_incident_id \in DOMAIN incidents
        => incidents[units[u].current_incident_id].status # "cancelled"

\* The statuses an incident can have before resolved.
BeforeResolved == {"reported", "verified", "assigned", "in_progress"}

\* C13 as stated: the transition to cancelled is accepted from each of
\* reported, verified, assigned and in_progress.
C13_CancelBeforeResolved ==
    [][incident_update_status(1, "cancelled") /\ incidents[1].status \in BeforeResolved
          => /\ response'.error = "none"
             /\ incidents'[1].status = "cancelled"]_vars

\* C13, amended: the transition to cancelled is accepted from reported,
\* verified and assigned, and refused from in_progress (and from resolved,
\* closed and cancelled), which leaves the incident as it was.
C13_CancelBeforeInProgress ==
    [][incident_update_status(1, "cancelled") =>
          IF incidents[1].status \in {"reported", "verified", "assigned"}
          THEN /\ response'.error = "none"
               /\ incidents'[1].status = "cancelled"
          ELSE /\ response'.error = "ValueError"
               /\ incidents' = incidents]_vars

\* C13 witness: an incident that went through in_progress and back to
\* assigned has just been cancelled.
C13_Witness ==
    /\ response.op = "update_status"
    /\ response.error = "none"
    /\ incidents[1].status = "cancelled"
    /\ incidents[1].response_started_at # None

\* The explicit inputs of the score of incident i evaluated at time t.
ScoreInputs(i, t) ==
    << incidents[i].severity, incidents[i].affected_people_count,
       t - incidents[i].created_at, incidents[i].is_mass_casualty,
       incidents[i].is_hazmat_involved, incidents[i].is_structural_damage >>

\* C14: the priority score is a function of severity, affected-people count,
\* age and the three flags alone: evaluations with equal inputs, on whichever
\* incident and at whichever time, give the same score, whatever the status,
\* the timestamps and the stored score are; and an evaluation returns that
\* score and leaves every incident as it was.
C14_ScorePure ==
    /\ [](\A i, j \in DOMAIN incidents, t1, t2 \in 1..(MaxTime + 1) :
             ScoreInputs(i, t1) = ScoreInputs(j, t2)
                => calculate_priority_score(incidents[i], t1)
                      = calculate_priority_score(incidents[j], t2))
    /\ [][\A i \in DOMAIN incidents :
             incident_calculate_priority_score(i)
                => /\ incidents' = incidents
                   /\ response'.error = "none"
                   /\ response'.code = calculate_priority_score(incidents[i], now).score]_vars

\* The units the statement makes eligible: dispatchable (available or
\* standby), of a type in the filter when there is one, within the radius.
Eligible(lat, radius_km, unit_types) ==
    { u \in DOMAIN units :
        /\ units[u].status \in {"available", "standby"}
        /\ unit_types # {} => units[u].unit_type \in unit_types
        /\ ST_Distance(units[u].lat, lat) <= radius_km * 1000 }

\* C15: the nearest-unit search returns an eligible unit than which no
\* eligible unit is strictly nearer, and returns none exactly when no unit is
\* eligible.
C15_NearestDispatchable ==
    [][\A lat \in NearestLats, radius_km \in NearestRadii,
          unit_types \in NearestTypeFilters :
          find_nearest_call(lat, radius_km, unit_types) =>
             IF Eligible(lat, radius_km, unit_types) = {}
             THEN response'.code = None
             ELSE /\ response'.code \in Eligible(lat, radius_km, unit_types)
                  /\ \A v \in Eligible(lat, radius_km, unit_types) :
                        ST_Distance(units[response'.code].lat, lat)
                           <= ST_Distance(units[v].lat, lat)]_vars

\* C16: the unit the automatic dispatch at creation chooses for an incident
\* has a type whose capability set intersects the capabilities the incident's
\* type requires.
C16_ChosenUnitCapable ==
    [][\A severity \in UrgentSeverities, lat \in IncidentLats :
          create_incident(Reporter, "flood", severity, lat, 0) /\ lat # 0
          => LET chosen == incidents'[Len(incidents')].assigned_unit_id
             IN  chosen # None =>
                    capabilities(units[chosen].unit_type)
                       \cap type_capabilities("flood") # {}]_vars

\* C17: an assign request for an incident that already has an active
\* assignment (status assigned or in_progress with a unit) is rejected, and
\* the incident and all the units are left as they were.
C17_AssignedIncidentRejected ==
    [][\A i \in 1..MaxIncidents, u \in 1..(NumUnits + 1) :
          /\ assign_incident_to_unit(i, u)
          /\ i \in DOMAIN incidents
          /\ incidents[i].status \in ActiveStatuses
          /\ incidents[i].assigned_unit_id # None
          => /\ response'.code >= 400
             /\ incidents' = incidents
             /\ units' = units]_vars

\* C18: a planning pass matches no unit to an input incident that already
\* has an active assignment (status assigned or in_progress with a unit).
C18_NoReplanOfActive ==
    \A k \in DOMAIN plan.assignments :
        /\ incidents[plan.assignments[k][1]].status \in ActiveStatuses
        /\ incidents[plan.assignments[k][1]].assigned_unit_id # None
        => plan.assignments[k][2] = None

\* C18 witness: a pass over an incident with an active assignment has ended
\* while an available unit stood within the search radius of the incident,
\* and the pass has claimed no unit.
C18_Witness ==
    /\ plan.pc \in {"done", "raised"}
    /\ plan.used_units = {}
    /\ \E k \in DOMAIN plan.input :
          /\ incidents[plan.input[k]].status \in ActiveStatuses
          /\ incidents[plan.input[k]].assigned_unit_id # None
          /\ nearest_units(units, incidents[plan.input[k]].lat, DefaultRadiusKm, {}) # {}

\* C19: the automatic dispatch commits an assignment only to a unit that is
\* dispatchable at the time of the commit: a unit that stopped being
\* dispatchable between its selection and the commit is never committed.
C19_RevalidatedAtCommit ==
    [][\A r \in ReqIds :
          create_assign(r) =>
             is_available_for_dispatch(units[reqs[r].rescue_unit_id].status)]_vars

\* The units the statement calls operational.
OperationalUnits ==
    { u \in DOMAIN units :
        units[u].status \notin {"out_of_service", "maintenance", "offline"} }

\* C20: a coverage analysis of a fleet with a non-offline unit returns its
\* list, and the list holds a point of the grid if and only if no
\* operational unit is within the coverage radius of the point.
C20_GapIffNoOperationalUnit ==
    [][\A grid_size_km \in CoverageGrids, coverage_radius_km \in CoverageRadii :
          /\ check_coverage_gaps_call(grid_size_km, coverage_radius_km)
          /\ \E u \in DOMAIN units : units[u].status # "offline"
          => /\ response'.error = "none"
             /\ \A point \in grid_points(units, grid_size_km) :
                   point \in response'.body
                      <=> ~ \E u \in OperationalUnits :
                             within_distance(point, units[u], coverage_radius_km)]_vars

\* ---------------------------------------------------------------- geo math
\* services/gis_service.py.  Coordinates are tenths of a degree, distances
\* whole metres, radii kilometres.

\* -90 <= latitude <= 90 and -180 <= longitude <= 180
validate_coordinates(latitude, longitude) ==
    /\ -900 <= latitude /\ latitude <= 900
    /\ -1800 <= longitude /\ longitude <= 1800

\* 2 * asin(sqrt(sin(d / 2) ** 2)) for an angle d: the angle folded into
\* half a turn.
central_angle(d) ==
    LET turn == Abs(d) % 3600
    IN  IF turn > 1800 THEN 3600 - turn ELSE turn

\* The haversine distance, r = 6371 km, of two points on one meridian
\* (lon1 = lon2) or of two points on the equator (lat1 = lat2 = 0).  The
\* arguments are used as they come: no range is checked.
calculate_distance(lat1, lon1, lat2, lon2) ==
    LET c == IF lon1 = lon2 THEN central_angle(lat2 - lat1)
                            ELSE central_angle(lon2 - lon1)
    IN  (c * 111195) \div 10

\* distance <= radius_km
point_in_radius(center_lat, center_lon, point_lat, point_lon, radius_km) ==
    calculate_distance(center_lat, center_lon, point_lat, point_lon)
        <= radius_km * 1000

\* math.cos(math.radians(center_lat)) for a latitude that is a multiple of
\* 180 degrees.
cos_half_turns(center_lat) == IF center_lat % 3600 = 0 THEN 1 ELSE -1

\* (center_lat - lat_delta, center_lon - lon_delta, center_lat + lat_delta,
\* center_lon + lon_delta) with lat_delta = radius_km / 111.0 and lon_delta =
\* radius_km / (111.0 * cos(center_lat)).
get_bounding_box(center_lat, center_lon, radius_km) ==
    LET lat_delta == (radius_km * 10) \div 111
        lon_delta == lat_delta * cos_half_turns(center_lat)
    IN  << center_lat - lat_delta, center_lon - lon_delta,
           center_lat + lat_delta, center_lon + lon_delta >>

\* A call of calculate_distance.
calculate_distance_call(lat1, lon1, lat2, lon2) ==
    /\ response' = [op |-> "calculate_distance",
                    code |-> calculate_distance(lat1, lon1, lat2, lon2),
                    error |-> "none", body |-> {}]
    /\ UNCHANGED <<incidents, units, rescue_units_id_seq, now, reqs, plan>>

\* A call of point_in_radius; the answer is 1 for True and 0 for False.
point_in_radius_call(center_lat, center_lon, point_lat, point_lon, radius_km) ==
    /\ response' = [op |-> "point_in_radius",
                    code |-> IF point_in_radius(center_lat, center_lon,
                                                point_lat, point_lon, radius_km)
                             THEN 1 ELSE 0,
                    error |-> "none", body |-> {}]
    /\ UNCHANGED <<incidents, units, rescue_units_id_seq, now, reqs, plan>>

\* A call of get_bounding_box.
get_bounding_box_call(center_lat, center_lon, radius_km) ==
    /\ response' = [op |-> "get_bounding_box", code |-> None, error |-> "none",
                    body |-> { get_bounding_box(center_lat, center_lon, radius_km) }]
    /\ UNCHANGED <<incidents, units, rescue_units_id_seq, now, reqs, plan>>

\* Pairs of points on one meridian or on the equator, some out of range.
GeoLats == {-950, -900, -450, 0, 10, 300, 900, 950, 1230, 2000}
GeoLons == {-1900, -1800, 0, 700, 1800, 1900}
GeoPairs ==
    { <<lat1, 0, lat2, 0>> : lat1 \in GeoLats, lat2 \in GeoLats }
        \cup { <<0, lon1, 0, lon2>> : lon1 \in GeoLons, lon2 \in GeoLons }
GeoCenters == { <<lat, lon>> : lat \in {-1800, 0, 1800, 3600}, lon \in GeoLons }
GeoRadii == {111, 222, 333}

NextGeo ==
    \/ \E p \in GeoPairs : calculate_distance_call(p[1], p[2], p[3], p[4])
    \/ \E p \in GeoPairs, radius_km \in GeoRadii :
          point_in_radius_call(p[1], p[2], p[3], p[4], radius_km)
    \/ \E c \in GeoCenters, radius_km \in GeoRadii :
          get_bounding_box_call(c[1], c[2], radius_km)

SpecGeo == Init /\ [][NextGeo]_vars

\* C21: a geo math operation given a latitude outside [-90, 90] or a
\* longitude outside [-180, 180] fails with InvalidCoordinate and returns no
\* value.
C21_InvalidCoordinateRejected ==
    [][ /\ \A p \in GeoPairs :
              ( /\ \/ calculate_distance_call(p[1], p[2], p[3], p[4])
                   \/ \E radius_km \in GeoRadii :
                         point_in_radius_call(p[1], p[2], p[3], p[4], radius_km)
                /\ ~ ( validate_coordinates(p[1], p[2])
                       /\ validate_coordinates(p[3], p[4]) ) )
              => (response'.error = "InvalidCoordinate" /\ response'.code = None)
        /\ \A c \in GeoCenters, radius_km \in GeoRadii :
              ( /\ get_bounding_box_call(c[1], c[2], radius_km)
                /\ ~ validate_coordinates(c[1], c[2]) )
              => (response'.error = "InvalidCoordinate" /\ response'.body = {})
      ]_vars

\* The timestamp that belongs to a status, None for a status that has none.
StampOf(inc) ==
    CASE inc.status = "verified" -> inc.verified_at
      [] inc.status = "assigned" -> inc.assigned_at
      [] inc.status = "in_progress" -> inc.response_started_at
      [] inc.status = "resolved" -> inc.resolved_at
      [] inc.status = "closed" -> inc.closed_at
      [] OTHER -> None

StampedStatuses == {"verified", "assigned", "in_progress", "resolved", "closed"}

\* C22: every step of every handler that moves an incident into verified,
\* assigned, in_progress, resolved or closed sets that status's timestamp to
\* the time of the step, and entering resolved also sets the resolution
\* time to resolved_at minus created_at.
C22_EntryStampsTimestamp ==
    [][ \A i \in DOMAIN incidents' :
          ( /\ incidents'[i].status \in StampedStatuses
            /\ \/ i \notin DOMAIN incidents
               \/ incidents[i].status # incidents'[i].status )
          => /\ StampOf(incidents'[i]) = now
             /\ incidents'[i].status = "resolved"
                  => incidents'[i].resolution_time
                       = (incidents'[i].resolved_at - incidents'[i].created_at) * 60
      ]_vars

\* SpecUnitStatus: unit 1 changed through the handler update_unit_status and
\* through the methods of RescueUnit, and loaded again by later sessions,
\* while the clock advances.
NextUnitStatus ==
    \/ \E st \in DispatchStatusInputs : update_unit_status(Operator, 1, st)
    \/ \E st \in DispatchStatusInputs, i \in {None, 1} : unit_update_status(1, st, i)
    \/ \E maintenance_date \in {0, MaxTime + 1}, aware \in BOOLEAN :
          unit_schedule_maintenance(1, maintenance_date, aware)
    \/ unit_update_location(1, unit_lat(1) + 1)
    \/ unit_refresh(1)
    \/ tick

SpecUnitStatus == InitIncident /\ [][NextUnitStatus]_vars

\* C23: a step that moves a unit from an operational status into available
\* clears its current_incident_id and adds the time elapsed since
\* deployment_start to total_service_time, and no step lowers
\* total_service_time.
C23_ReturnAccountsService ==
    [][ \A u \in DOMAIN units :
          /\ units'[u].total_service_time >= units[u].total_service_time
          /\ ( /\ status_is_operational(units[u].status)
               /\ units[u].status # "available"
               /\ units'[u].status = "available" )
             => /\ units'[u].current_incident_id = None
                /\ units'[u].total_service_time
                     = units[u].total_service_time
                         + (IF units[u].deployment_start # None
                            THEN now - units[u].deployment_start ELSE 0)
      ]_vars

\* C24: a dispatched unit has a current_incident_id and a deployment_start.
C24_DispatchedHasTarget ==
    \A u \in DOMAIN units :
        units[u].status = "dispatched"
            => /\ units[u].current_incident_id # None
               /\ units[u].deployment_start # None

\* SpecScoreTable: one incident of every severity, with an affected-people
\* count on either side of every tier boundary, every combination of the
\* three flags, reported at hour 1 and scored at an hour on either side of
\* every age boundary; the incident is a row loaded from the database or an
\* object built in memory.
ScorePeople == {0, 1, 10, 11, 20, 21, 50, 51, 100, 101}
ScoreHours == {1, 3, 4, 7, 8, 13, 14, 25, 26}

InitScoreTable ==
    /\ incidents \in
         { << [NewIncident(Reporter.id, "flood", severity, 2, people, 1)
                 EXCEPT !.is_mass_casualty = mass, !.is_hazmat_involved = hazmat,
                        !.is_structural_damage = damage,
                        !.created_at_aware = aware] >> :
             severity \in SeverityLevel, people \in ScorePeople,
             mass \in BOOLEAN, hazmat \in BOOLEAN, damage \in BOOLEAN,
             aware \in BOOLEAN }
    /\ units \in Fleets({"available"}, {TRUE})
    /\ rescue_units_id_seq = Cardinality(DOMAIN units)
    /\ now \in ScoreHours
    /\ reqs = [r \in ReqIds |-> IdleReq]
    /\ plan = IdlePlan
    /\ response = NoResponse

NextScoreTable ==
    \/ incident_calculate_priority_score(1)
    \/ update_priority_score(1)

SpecScoreTable == InitScoreTable /\ [][NextScoreTable]_vars

\* The score as the specification states it.
StatedS(severity) ==
    CASE severity = "low" -> 4 [] severity = "medium" -> 12
      [] severity = "high" -> 24 [] severity = "critical" -> 40
StatedP(count) ==
    CASE count > 100 -> 30
      [] count > 50 /\ count <= 100 -> 25
      [] count > 20 /\ count <= 50 -> 20
      [] count > 10 /\ count <= 20 -> 15
      [] count > 0 /\ count <= 10 -> 10
      [] count = 0 -> 0
StatedA(hours) ==
    CASE hours > 24 -> 20
      [] hours > 12 /\ hours <= 24 -> 15
      [] hours > 6 /\ hours <= 12 -> 10
      [] hours > 2 /\ hours <= 6 -> 5
      [] OTHER -> 0
StatedF(inc) ==
    (IF inc.is_mass_casualty THEN 5 ELSE 0) + (IF inc.is_hazmat_involved THEN 3 ELSE 0)
        + (IF inc.is_structural_damage THEN 2 ELSE 0)
StatedScore(inc, t) ==
    LET sum == StatedS(inc.severity) + StatedP(inc.affected_people_count)
                 + StatedA(t - inc.created_at) + StatedF(inc)
    IN  IF sum > 100 THEN 100 ELSE sum

\* C25: the computed score is min(100, S + P + A + F) with S 4/12/24/40 by
\* severity, P 30/25/20/15/10/0 by affected-people tier, A 20/15/10/5/0 by
\* age tier and F 5 + 3 + 2 for the flags, lies within 0..100, and is the
\* value update_priority_score stores.
C25_ScoreFormula ==
    [][ /\ incident_calculate_priority_score(1)
           => /\ response'.code = StatedScore(incidents[1], now)
              /\ response'.code \in 0..100
        /\ update_priority_score(1)
           => incidents'[1].priority_score = StatedScore(incidents[1], now)
      ]_vars

\* C26: an incident created as reported and changed only through
\* update_status has assigned_at set when assigned; assigned_at and
\* response_started_at set when in_progress; response_started_at,
\* resolved_at and resolution_time set when resolved; resolved_at and
\* closed_at set when closed.
C26_TimestampsFollowStatus ==
    \A i \in DOMAIN incidents :
        LET inc == incidents[i]
        IN  /\ inc.status = "assigned" => inc.assigned_at # None
            /\ inc.status = "in_progress"
                 => inc.assigned_at # None /\ inc.response_started_at # None
            /\ inc.status = "resolved"
                 => /\ inc.response_started_at # None
                    /\ inc.resolved_at # None
                    /\ inc.resolution_time # None
            /\ inc.status = "closed"
                 => inc.resolved_at # None /\ inc.closed_at # None

\* What a planning pass must leave alone: status, target incident and
\* location of every unit, status and assigned unit of every incident.
UnitFrame(pool) ==
    [u \in DOMAIN pool |-> <<pool[u].status, pool[u].current_incident_id, pool[u].lat>>]
IncidentFrame(rows) ==
    [i \in DOMAIN rows |-> <<rows[i].status, rows[i].assigned_unit_id>>]

\* C27: the call of optimize_unit_assignments and every iteration of its
\* loop leave the status, target incident and location of every unit and the
\* status and assigned unit of every incident unchanged.
C27_PlanningWritesNothing ==
    [][ ( \/ \E input \in {Ascending(MaxBatch), Descending(MaxBatch)} : plan_begin(input)
          \/ plan_step )
        => /\ UnitFrame(units') = UnitFrame(units)
           /\ IncidentFrame(incidents') = IncidentFrame(incidents)
      ]_vars

\* C27 witness: a pass has ended over a batch that holds a reported
\* incident with an available unit within its search radius; the unit is
\* still available with no target and the incident still reported with no
\* assigned unit.
C27_Witness ==
    /\ plan.pc \in {"done", "raised"}
    /\ \E k \in DOMAIN plan.input :
          LET id == plan.input[k]
          IN  /\ incidents[id].lat # 0
              /\ incidents[id].status = "reported"
              /\ incidents[id].assigned_unit_id = None
              /\ \E u \in nearest_units(units, incidents[id].lat, DefaultRadiusKm, {}) :
                    /\ units[u].status = "available"
                    /\ units[u].current_incident_id = None

\* SpecDeleteRace: NumReqs requests, each an assign or a delete in its own
\* session, admitted together; their statements interleave freely.
InitDeleteRace ==
    /\ incidents = [i \in 1..MaxIncidents |-> NewIncident(Reporter.id, "flood", "low", 2, 0, 1)]
    /\ units \in Fleets({"available"}, {TRUE})
    /\ rescue_units_id_seq = Cardinality(DOMAIN units)
    /\ now = 1
    /\ reqs \in [ReqIds ->
                   { [IdleReq EXCEPT !.pc = "read_incident",
                                     !.incident_id = i,
                                     !.rescue_unit_id = u] :
                       i \in 1..MaxIncidents, u \in UnitIds }
                   \cup { [IdleReq EXCEPT !.pc = "delete_read",
                                          !.rescue_unit_id = u] :
                            u \in 1..(NumUnits + 1) }]
    /\ plan = IdlePlan
    /\ response = NoResponse

NextDeleteRace ==
    \E r \in ReqIds :
        \/ assign_read_incident(r)
        \/ assign_read_unit(r)
        \/ assign_check(r)
        \/ assign_commit(r)
        \/ delete_read_unit(r)
        \/ delete_count(r)
        \/ delete_select(r)
        \/ delete_commit(r)

SpecDeleteRace == InitDeleteRace /\ [][NextDeleteRace]_vars

\* No incident in assigned or in_progress references a unit that is not
\* stored.
NoDanglingAssignment ==
    \A i \in DOMAIN incidents :
        ( /\ incidents[i].status \in {"assigned", "in_progress"}
          /\ incidents[i].assigned_unit_id # None )
        => incidents[i].assigned_unit_id \in DOMAIN units

\* C28: no step removes a unit that is, at that moment, the assigned unit of
\* an incident in assigned or in_progress, and no incident in assigned or
\* in_progress references a unit that is not stored.
C28_AssignedUnitNotDeleted ==
    [][ /\ \A u \in DOMAIN units :
             active_incidents(incidents, u) # {} => u \in DOMAIN units'
        /\ NoDanglingAssignment'
      ]_vars

\* ---------------------------------------------------------------- FloodZone
\* models/flood_zone.py.  A zone is the columns the two scores read;
\* population_estimate is nullable (None) and update_flood_zone stores a null
\* sent in the body.

RiskLevel == {"very_low", "low", "medium", "high", "very_high", "extreme"}
PopulationEstimates == {None, 0, 1000, 1001, 5000, 5001, 10000, 10001}

Zones ==
    [ risk_level : RiskLevel, population_estimate : PopulationEstimates,
      is_currently_flooded : BOOLEAN, evacuation_recommended : BOOLEAN,
      evacuation_mandatory : BOOLEAN ]

\* FloodZone.get_priority_score: the comparison of a None population_estimate
\* with a number raises TypeError.
get_priority_score(zone) ==
    LET risk_scores ==
            CASE zone.risk_level = "very_low"  -> 1
              [] zone.risk_level = "low"       -> 2
              [] zone.risk_level = "medium"    -> 3
              [] zone.risk_level = "high"      -> 4
              [] zone.risk_level = "very_high" -> 5
              [] zone.risk_level = "extreme"   -> 6
              [] OTHER                         -> 0
        population ==
            IF zone.population_estimate > 10000 THEN 20
            ELSE IF zone.population_estimate > 5000 THEN 15
            ELSE IF zone.population_estimate > 1000 THEN 10
            ELSE 0
        flooding == IF zone.is_currently_flooded THEN 30 ELSE 0
        evacuation ==
            IF zone.evacuation_mandatory THEN 25
            ELSE IF zone.evacuation_recommended THEN 15
            ELSE 0
        score == risk_scores * 10 + population + flooding + evacuation
    IN  IF zone.population_estimate = None
        THEN [error |-> "TypeError", value |-> None]
        ELSE [error |-> "none", value |-> IF score < 100 THEN score ELSE 100]

\* The expression of the hybrid property priority_score, as the database
\* evaluates it: a comparison with NULL is not true and falls to else_.
priority_score_expression(zone) ==
    LET risk_score ==
            CASE zone.risk_level = "extreme"   -> 60
              [] zone.risk_level = "very_high" -> 50
              [] zone.risk_level = "high"      -> 40
              [] zone.risk_level = "medium"    -> 30
              [] zone.risk_level = "low"       -> 20
              [] zone.risk_level = "very_low"  -> 10
              [] OTHER                         -> 0
        known == zone.population_estimate # None
        population_score ==
            IF known /\ zone.population_estimate > 10000 THEN 20
            ELSE IF known /\ zone.population_estimate > 5000 THEN 15
            ELSE IF known /\ zone.population_estimate > 1000 THEN 10
            ELSE 0
        flooding_score == IF zone.is_currently_flooded THEN 30 ELSE 0
        evacuation_score ==
            IF zone.evacuation_mandatory THEN 25
            ELSE IF zone.evacuation_recommended THEN 15
            ELSE 0
        total_score == risk_score + population_score + flooding_score + evacuation_score
    IN  IF total_score < 100 THEN total_score ELSE 100

\* zone.get_priority_score() on a stored zone; the response names the zone in
\* its body.
get_priority_score_call(zone) ==
    /\ response' = [op |-> "get_priority_score",
                    code |-> get_priority_score(zone).value,
                    error |-> get_priority_score(zone).error,
                    body |-> {zone}]
    /\ UNCHANGED <<incidents, units, rescue_units_id_seq, now, reqs, plan>>

\* SELECT of FloodZone.priority_score for a stored zone.
priority_score_select(zone) ==
    /\ response' = [op |-> "priority_score", code |-> priority_score_expression(zone),
                    error |-> "none", body |-> {zone}]
    /\ UNCHANGED <<incidents, units, rescue_units_id_seq, now, reqs, plan>>

NextZoneScore ==
    \/ \E zone \in Zones : get_priority_score_call(zone)
    \/ \E zone \in Zones : priority_score_select(zone)

SpecZoneScore == Init /\ [][NextZoneScore]_vars

\* C29: for every zone, get_priority_score returns the value of the SQL
\* expression of priority_score.
C29_ZoneScoresAgree ==
    [][ \A zone \in Zones :
          get_priority_score_call(zone)
             => /\ response'.error = "none"
                /\ response'.code = priority_score_expression(zone) ]_vars

\* The two scores agree on every zone that has a population estimate.
ZoneScoresAgreeWhenEstimated ==
    [][ \A zone \in Zones :
          (get_priority_score_call(zone) /\ zone.population_estimate # None)
             => /\ response'.error = "none"
                /\ response'.code = priority_score_expression(zone) ]_vars

\* The bounding box of the non-offline units widened by half a degree.
InWidenedBox(point) ==
    LET lats == { units[u].lat * TenthDegree :
                    u \in { v \in DOMAIN units : units[v].status # "offline" } }
    IN  /\ \E y \in lats : y - HalfDegree <= point[1]
        /\ \E y \in lats : point[1] <= y + HalfDegree
        /\ 0 - HalfDegree <= point[2] /\ point[2] <= HalfDegree

=============================================================================
